---------------------------- MODULE Spec2Model ----------------------------
(***************************************************************************)
(* A model of the OMG IDL code generator (omg-idl-code-gen): the module    *)
(* table (Context / IdlModule), the lowering of parse-tree pairs into the  *)
(* IR (read_type_spec, read_const_expr, process), the rendering of the IR  *)
(* (Display impls, render) and the driver generate_with_loader.            *)
(*                                                                         *)
(* Text is modelled by TLA+ strings; the output of a template (the         *)
(* template engine and the *.j2 files are external) is modelled by a       *)
(* record holding the template name and the context handed to it.          *)
(***************************************************************************)
EXTENDS Naturals, Sequences, FiniteSets, TLC

VARIABLES
    root_module,       \* Context.root_module: the module table
    cur_scope,         \* the Scope of the walk
    last_call,         \* the latest call made on the module table (history)
    calls,             \* number of calls made on the module table so far
    files,             \* the loader: what it produces for each file name
    templates,         \* the templates of the minijinja environment
    pc,                \* where generate_with_loader is
    root_pairs,        \* the pairs parsed from the root file
    root_module_text,  \* the rendering of the root module
    sink,              \* what has been written to the output
    returned,          \* what generate_with_loader returned
    given,             \* a pair handed to a reader
    lowered,           \* what the reader returned for it
    shown,             \* the Display text of the lowered value
    reread,            \* what the reader returned for the parse of that text
    hash_seed,         \* the keys of the RandomState of this process's maps
    prev_text,         \* what the run before this one wrote, if it returned Ok
    runs,              \* how many times the generator has been started
    frames,            \* the calls of process under way, the innermost last
    loaded             \* the files the include arm has loaded so far (history)

ctxVars == <<root_module, cur_scope>>

tableVars == <<last_call, calls>>

driverVars ==
    <<files, templates, pc, root_pairs, root_module_text, sink, returned>>

lowerVars == <<given, lowered, shown, reread>>

runVars == <<hash_seed, prev_text, runs>>

walkVars == <<frames, loaded>>

vars ==
    <<root_module, cur_scope, last_call, calls, files, templates, pc,
      root_pairs, root_module_text, sink, returned, given, lowered, shown,
      reread, hash_seed, prev_text, runs, frames, loaded>>

-----------------------------------------------------------------------------
(* Option<T> and Result<T, E>                                              *)

None == [tag |-> "None"]

Some(v) == [tag |-> "Some", val |-> v]

is_some(o) == o.tag = "Some"

Ok(v) == [ok |-> TRUE, val |-> v]

Err(e) == [ok |-> FALSE, err |-> e]

\* F(r?): an Err is returned as it is, the value of an Ok is carried on
and_then(r, F(_)) == IF r.ok THEN F(r.val) ELSE r

\* F(a?, b?)
and_then2(a, b, F(_, _)) ==
    IF ~a.ok THEN a ELSE IF ~b.ok THEN b ELSE F(a.val, b.val)

\* F(a?, b?, c?)
and_then3(a, b, c, F(_, _, _)) ==
    IF ~a.ok THEN a
    ELSE IF ~b.ok THEN b
    ELSE IF ~c.ok THEN c
    ELSE F(a.val, b.val, c.val)

-----------------------------------------------------------------------------
(* linked_hash_map::LinkedHashMap<String, V>: a sequence of entries with   *)
(* pairwise distinct keys, in insertion order.                             *)

LinkedHashMap_default == << >>

contains_key(map, key) == \E i \in 1..Len(map) : map[i].key = key

\* the position of key in the iteration order (0 when absent)
index_of(map, key) ==
    IF contains_key(map, key)
    THEN CHOOSE i \in 1..Len(map) : map[i].key = key
    ELSE 0

get(map, key) == map[index_of(map, key)].value

\* (mutant) map.insert(key, value): a stored value is replaced
or_insert_replacing(map, key, value) ==
    IF contains_key(map, key)
    THEN [i \in 1..Len(map) |->
             IF map[i].key = key THEN [key |-> key, value |-> value] ELSE map[i]]
    ELSE Append(map, [key |-> key, value |-> value])

\* map.entry(key).or_insert(value)
or_insert(map, key, value) ==
    IF contains_key(map, key)
    THEN map
    ELSE Append(map, [key |-> key, value |-> value])

\* overwrite the value of an entry that is known to exist
set_value(map, key, value) ==
    [i \in 1..Len(map) |->
        IF map[i].key = key THEN [key |-> key, value |-> value] ELSE map[i]]

\* (mutant) the entries in the order of a hash table keyed by hash_seed
entries_by_hash(map) ==
    IF hash_seed = 0 THEN map ELSE [i \in 1..Len(map) |-> map[Len(map) + 1 - i]]

\* map.entries(): the entries in the order of insertion, whatever the keys
\* hash to
entries(map) == map

\* the keys in iteration order
keys(map) == [i \in 1..Len(map) |-> map[i].key]

-----------------------------------------------------------------------------
(* IdlModule and the Context operations on it                              *)

IdlModule_new(id) ==
    [id        |-> id,
     uses      |-> << >>,
     modules   |-> LinkedHashMap_default,
     types     |-> LinkedHashMap_default,
     constants |-> LinkedHashMap_default]

Context_new == IdlModule_new(None)

\* (mutant) a module that is missing is created without its name
RECURSIVE lookup_module_unnamed(_, _)
lookup_module_unnamed(module, scope) ==
    IF scope = << >>
    THEN module
    ELSE LET name == Head(scope)
             mods == or_insert(module.modules, name, IdlModule_new(None))
             sub  == lookup_module_unnamed(get(mods, name), Tail(scope))
         IN  [module EXCEPT !.modules = set_value(mods, name, sub)]

\* The effect of lookup_module on the table: every module on the path
\* `scope` below `module` exists afterwards.
RECURSIVE lookup_module(_, _)
lookup_module(module, scope) ==
    IF scope = << >>
    THEN module
    ELSE LET name == Head(scope)
             mods == or_insert(module.modules, name, IdlModule_new(Some(name)))
             sub  == lookup_module(get(mods, name), Tail(scope))
         IN  [module EXCEPT !.modules = set_value(mods, name, sub)]

\* The module lookup_module returns a reference to (it exists after
\* lookup_module has run).
RECURSIVE module_at(_, _)
module_at(module, scope) ==
    IF scope = << >>
    THEN module
    ELSE module_at(get(module.modules, Head(scope)), Tail(scope))

\* whether the module at path `scope` exists
RECURSIVE has_module(_, _)
has_module(module, scope) ==
    IF scope = << >>
    THEN TRUE
    ELSE /\ contains_key(module.modules, Head(scope))
         /\ has_module(get(module.modules, Head(scope)), Tail(scope))

\* write through the reference lookup_module returned
RECURSIVE store_module(_, _, _)
store_module(module, scope, new) ==
    IF scope = << >>
    THEN new
    ELSE LET name == Head(scope)
         IN  [module EXCEPT !.modules =
                 set_value(@, name,
                     store_module(get(module.modules, name), Tail(scope), new))]

add_type_dcl(root, scope, key, type_dcl) ==
    LET looked == lookup_module(root, scope)
        m      == module_at(looked, scope)
    IN  store_module(looked, scope,
            [m EXCEPT !.types = or_insert(@, key, type_dcl)])

add_const_dcl(root, scope, key, const_dcl) ==
    LET looked == lookup_module(root, scope)
        m      == module_at(looked, scope)
    IN  store_module(looked, scope,
            [m EXCEPT !.constants = or_insert(@, key, const_dcl)])

-----------------------------------------------------------------------------
(* The IR (ast.rs): operators, scoped names, value expressions, types      *)

UnaryOp_to_str(op) ==
    CASE op = "Neg"     -> "-"
      [] op = "Pos"     -> "+"
      [] op = "Inverse" -> "~"

\* (mutant) & and | are written for each other
BinaryOp_to_str_swapped(op) ==
    CASE op = "Add"    -> "+"
      [] op = "Sub"    -> "-"
      [] op = "Mul"    -> "*"
      [] op = "Div"    -> "/"
      [] op = "Mod"    -> "%"
      [] op = "LShift" -> "<<"
      [] op = "RShift" -> ">>"
      [] op = "Or"     -> "&"
      [] op = "Xor"    -> "^"
      [] op = "And"    -> "|"

BinaryOp_to_str(op) ==
    CASE op = "Add"    -> "+"
      [] op = "Sub"    -> "-"
      [] op = "Mul"    -> "*"
      [] op = "Div"    -> "/"
      [] op = "Mod"    -> "%"
      [] op = "LShift" -> "<<"
      [] op = "RShift" -> ">>"
      [] op = "Or"     -> "|"
      [] op = "Xor"    -> "^"
      [] op = "And"    -> "&"

\* struct IdlScopedName(pub Vec<String>, pub bool)
IdlScopedName(components, is_absolute) ==
    [components |-> components, absolute |-> is_absolute]

\* impl fmt::Display for IdlScopedName
RECURSIVE IdlScopedName_fmt_from(_, _, _)
IdlScopedName_fmt_from(components, is_absolute_path, idx) ==
    IF idx > Len(components)
    THEN ""
    ELSE LET comp == components[idx]
             piece == IF idx = 1 /\ ~is_absolute_path THEN comp
                      ELSE IF idx = 1 /\ is_absolute_path THEN "crate::" \o comp
                      ELSE "::" \o comp
         IN  piece \o IdlScopedName_fmt_from(components, is_absolute_path, idx + 1)

IdlScopedName_fmt(name) ==
    IdlScopedName_fmt_from(name.components, name.absolute, 1)

\* enum IdlValueExpr
DecLiteral(val)        == [tag |-> "DecLiteral", val |-> val]
HexLiteral(val)        == [tag |-> "HexLiteral", val |-> val]
OctLiteral(val)        == [tag |-> "OctLiteral", val |-> val]
CharLiteral(val)       == [tag |-> "CharLiteral", val |-> val]
WideCharLiteral(val)   == [tag |-> "WideCharLiteral", val |-> val]
StringLiteral(val)     == [tag |-> "StringLiteral", val |-> val]
WideStringLiteral(val) == [tag |-> "WideStringLiteral", val |-> val]
BooleanLiteral(flag)   == [tag |-> "BooleanLiteral", flag |-> flag]
FloatLiteral(i, f, e, s) ==
    [tag |-> "FloatLiteral", integral |-> i, fraction |-> f,
     exponent |-> e, suffix |-> s]
UnaryOpExpr(op, expr)  == [tag |-> "UnaryOp", op |-> op, expr |-> expr]
BinaryOpExpr(op, expr) == [tag |-> "BinaryOp", op |-> op, expr |-> expr]
Expr(expr1, expr2)     == [tag |-> "Expr", expr1 |-> expr1, expr2 |-> expr2]
Brace(expr)            == [tag |-> "Brace", expr |-> expr]
ScopedNameExpr(name)   == [tag |-> "ScopedName", name |-> name]
NoneExpr               == [tag |-> "None"]

LiteralTags ==
    {"DecLiteral", "HexLiteral", "OctLiteral", "CharLiteral",
     "WideCharLiteral", "StringLiteral", "WideStringLiteral"}

\* Whether formatting the expression panics: FloatLiteral unwraps each of its
\* four parts.
RECURSIVE IdlValueExpr_fmt_panics(_)
IdlValueExpr_fmt_panics(e) ==
    CASE e.tag = "FloatLiteral" ->
            ~(is_some(e.integral) /\ is_some(e.fraction)
              /\ is_some(e.exponent) /\ is_some(e.suffix))
      [] e.tag \in {"UnaryOp", "BinaryOp", "Brace"} ->
            IdlValueExpr_fmt_panics(e.expr)
      [] e.tag = "Expr" ->
            IdlValueExpr_fmt_panics(e.expr1) \/ IdlValueExpr_fmt_panics(e.expr2)
      [] OTHER -> FALSE

\* impl fmt::Display for IdlValueExpr (defined where it does not panic)
RECURSIVE IdlValueExpr_fmt(_)
IdlValueExpr_fmt(e) ==
    CASE e.tag = "None"           -> ""
      [] e.tag \in LiteralTags    -> e.val
      [] e.tag = "BooleanLiteral" -> IF e.flag THEN "true" ELSE "false"
      [] e.tag = "UnaryOp"  -> UnaryOp_to_str(e.op) \o IdlValueExpr_fmt(e.expr)
      [] e.tag = "BinaryOp" -> BinaryOp_to_str(e.op) \o IdlValueExpr_fmt(e.expr)
      [] e.tag = "Expr"     -> IdlValueExpr_fmt(e.expr1) \o IdlValueExpr_fmt(e.expr2)
      [] e.tag = "Brace"    -> "(" \o IdlValueExpr_fmt(e.expr) \o ")"
      [] e.tag = "FloatLiteral" ->
            e.integral.val \o "." \o e.fraction.val \o "e"
                \o e.exponent.val \o e.suffix.val
      [] e.tag = "ScopedName" -> IdlScopedName_fmt(e.name)

\* enum IdlTypeSpec
PrimitiveTypes ==
    {"F32Type", "F64Type", "F128Type", "I16Type", "I32Type", "I64Type",
     "U16Type", "U32Type", "U64Type", "CharType", "WideCharType",
     "BooleanType", "OctetType"}

Primitive(tag)             == [tag |-> tag]
NoneType                   == [tag |-> "None"]
ArrayType(typ, dims)       == [tag |-> "ArrayType", typ |-> typ, dims |-> dims]
SequenceType(typ)          == [tag |-> "SequenceType", typ |-> typ]
StringType(bound)          == [tag |-> "StringType", bound |-> bound]
WideStringType(bound)      == [tag |-> "WideStringType", bound |-> bound]
ScopedNameType(name)       == [tag |-> "ScopedName", name |-> name]

\* "[".repeat(n)
RECURSIVE repeat(_, _)
repeat(s, n) == IF n = 0 THEN "" ELSE s \o repeat(s, n - 1)

\* (mutant) the dimensions in reverse order
RECURSIVE dim_list_str_reversed(_)
dim_list_str_reversed(dim_expr_list) ==
    IF dim_expr_list = << >>
    THEN ""
    ELSE dim_list_str_reversed(Tail(dim_expr_list))
             \o ";" \o IdlValueExpr_fmt(Head(dim_expr_list)) \o "]"

\* dim_expr_list.iter().map(|expr| format!(";{}]", expr)).collect::<String>()
RECURSIVE dim_list_str(_)
dim_list_str(dim_expr_list) ==
    IF dim_expr_list = << >>
    THEN ""
    ELSE ";" \o IdlValueExpr_fmt(Head(dim_expr_list)) \o "]"
             \o dim_list_str(Tail(dim_expr_list))

\* Whether formatting the type panics: unimplemented!() for None, and the
\* unwraps of a FloatLiteral among the array dimensions.
RECURSIVE IdlTypeSpec_fmt_panics(_)
IdlTypeSpec_fmt_panics(t) ==
    CASE t.tag = "None" -> TRUE
      [] t.tag = "SequenceType" -> IdlTypeSpec_fmt_panics(t.typ)
      [] t.tag = "ArrayType" ->
            \/ IdlTypeSpec_fmt_panics(t.typ)
            \/ \E i \in 1..Len(t.dims) : IdlValueExpr_fmt_panics(t.dims[i])
      [] OTHER -> FALSE

PrimitiveToken(tag) ==
    CASE tag = "F32Type"      -> "f32"
      [] tag = "F64Type"      -> "f64"
      [] tag = "F128Type"     -> "f128"
      [] tag = "I16Type"      -> "i16"
      [] tag = "I32Type"      -> "i32"
      [] tag = "I64Type"      -> "i64"
      [] tag = "U16Type"      -> "u16"
      [] tag = "U32Type"      -> "u32"
      [] tag = "U64Type"      -> "u64"
      [] tag = "CharType"     -> "char"
      [] tag = "WideCharType" -> "char"
      [] tag = "BooleanType"  -> "bool"
      [] tag = "OctetType"    -> "u8"

\* impl fmt::Display for IdlTypeSpec (defined where it does not panic)
RECURSIVE IdlTypeSpec_fmt(_)
IdlTypeSpec_fmt(t) ==
    CASE t.tag \in PrimitiveTypes  -> PrimitiveToken(t.tag)
      [] t.tag = "StringType"      -> "String"
      [] t.tag = "WideStringType"  -> "String"
      [] t.tag = "SequenceType"    -> "Vec<" \o IdlTypeSpec_fmt(t.typ) \o ">"
      [] t.tag = "ArrayType"       ->
            repeat("[", Len(t.dims)) \o IdlTypeSpec_fmt(t.typ)
                \o dim_list_str(t.dims)
      [] t.tag = "ScopedName"      -> IdlScopedName_fmt(t.name)

-----------------------------------------------------------------------------
(* The parse tree handed over by the parser (pest::iterators::Pair): a     *)
(* rule, the matched text and the inner pairs.                             *)

Pair(rule, str, inner) == [rule |-> rule, str |-> str, inner |-> inner]

\* str.starts_with(prefix)
starts_with(str, prefix) ==
    Len(str) >= Len(prefix) /\ SubSeq(str, 1, Len(prefix)) = prefix

\* str.to_uppercase(), for the spellings of the boolean literals
to_uppercase(str) ==
    CASE str \in {"TRUE", "True", "true"}    -> "TRUE"
      [] str \in {"FALSE", "False", "false"} -> "FALSE"
      [] OTHER -> str

\* iter.collect::<Result<Vec<_>, _>>(): the first error, or all the values
collect(results) ==
    IF \E i \in 1..Len(results) : ~results[i].ok
    THEN results[CHOOSE i \in 1..Len(results) :
                    /\ ~results[i].ok
                    /\ \A j \in 1..(i - 1) : results[j].ok]
    ELSE Ok([i \in 1..Len(results) |-> results[i].val])

read_identifier(pair) ==
    IF pair.rule \in {"identifier", "enumerator"}
    THEN Ok(pair.str)
    ELSE Err("Pair did not contain a valid scoped name rule")

\* (mutant) the name is taken to be relative whatever its text begins with
read_scoped_name_relative(pair) ==
    and_then(collect([i \in 1..Len(pair.inner) |-> read_identifier(pair.inner[i])]),
             LAMBDA scoped_name : Ok(IdlScopedName(scoped_name, FALSE)))

read_scoped_name(pair) ==
    and_then(collect([i \in 1..Len(pair.inner) |-> read_identifier(pair.inner[i])]),
             LAMBDA scoped_name :
                 Ok(IdlScopedName(scoped_name, starts_with(pair.str, "::"))))

BinaryOpOfRule(rule) ==
    CASE rule = "and_expr"    -> "And"
      [] rule = "or_expr"     -> "Or"
      [] rule = "xor_expr"    -> "Xor"
      [] rule = "lshift_expr" -> "LShift"
      [] rule = "rshift_expr" -> "RShift"
      [] rule = "add_expr"    -> "Add"
      [] rule = "sub_expr"    -> "Sub"
      [] rule = "mul_expr"    -> "Mul"
      [] rule = "div_expr"    -> "Div"
      [] rule = "mod_expr"    -> "Mod"

BinaryOpRules ==
    {"and_expr", "or_expr", "xor_expr", "lshift_expr", "rshift_expr",
     "add_expr", "sub_expr", "mul_expr", "div_expr", "mod_expr"}

\* inner.fold(fp_collect_init, fp_collect): the last part of each kind
\* (the grammar gives a floating_pt_literal children of these four kinds
\* only; fp_collect panics on any other)
fp_part(inner, rule) ==
    IF \E i \in 1..Len(inner) : inner[i].rule = rule
    THEN Some(inner[CHOOSE i \in 1..Len(inner) :
                       /\ inner[i].rule = rule
                       /\ \A j \in (i + 1)..Len(inner) : inner[j].rule # rule].str)
    ELSE None

RECURSIVE read_const_expr(_)
read_const_expr(pair) ==
    LET rule  == pair.rule
        inner == pair.inner
        n     == Len(pair.inner)
    IN
    CASE rule = "const_expr" ->
            IF n >= 2
            THEN and_then2(read_const_expr(inner[1]), read_const_expr(inner[2]),
                           LAMBDA value_expr_0, value_expr_1 :
                               Ok(Expr(value_expr_0, value_expr_1)))
            ELSE IF n = 1 THEN read_const_expr(inner[1])
            ELSE Err("Pair did not contain a valid const expression rule")
      [] rule = "unary_expr" ->
            IF n >= 2
            THEN and_then(read_const_expr(inner[2]),
                    LAMBDA expr :
                        CASE inner[1].str = "-" -> Ok(UnaryOpExpr("Neg", expr))
                          [] inner[1].str = "+" -> Ok(UnaryOpExpr("Pos", expr))
                          [] inner[1].str = "~" -> Ok(UnaryOpExpr("Inverse", expr))
                          [] OTHER -> Err("does not match acceptable values -|+|~"))
            ELSE IF n = 1 THEN read_const_expr(inner[1])
            ELSE Err("Rule does not match expected unary expression format")
      [] rule = "primary_expr" ->
            IF n >= 1 /\ inner[1].rule = "scoped_name"
            THEN and_then(read_scoped_name(inner[1]),
                          LAMBDA name : Ok(ScopedNameExpr(name)))
            ELSE IF n >= 1 /\ inner[1].rule = "literal"
            THEN read_const_expr(inner[1])
            ELSE IF n >= 1 /\ inner[1].rule = "const_expr"
            THEN and_then(read_const_expr(inner[1]), LAMBDA expr : Ok(Brace(expr)))
            ELSE Err("Primary expression did not match 'scoped_name', 'literal', or 'const expression'")
      [] rule \in BinaryOpRules ->
            IF n >= 1
            THEN and_then(read_const_expr(inner[1]),
                          LAMBDA expr : Ok(BinaryOpExpr(BinaryOpOfRule(rule), expr)))
            ELSE Err("No associated values found with the parsed expression")
      [] rule = "decimal_integer_literal" -> Ok(DecLiteral(pair.str))
      [] rule = "octal_integer_literal"   -> Ok(OctLiteral(pair.str))
      [] rule = "hex_integer_literal"     -> Ok(HexLiteral(pair.str))
      [] rule = "floating_pt_literal" ->
            Ok(FloatLiteral(fp_part(inner, "integral_part"),
                            fp_part(inner, "fractional_part"),
                            fp_part(inner, "exponent"),
                            fp_part(inner, "float_suffix")))
      [] rule = "boolean_literal" ->
            Ok(BooleanLiteral(to_uppercase(pair.str) = "TRUE"))
      [] rule = "character_literal"      -> Ok(CharLiteral(pair.str))
      [] rule = "wide_character_literal" -> Ok(WideCharLiteral(pair.str))
      [] rule = "string_literal"         -> Ok(StringLiteral(pair.str))
      [] rule = "wide_string_literal"    -> Ok(WideStringLiteral(pair.str))
      [] OTHER ->
            IF n >= 1
            THEN read_const_expr(inner[1])
            ELSE Err("Failed to read 'const expression' in the catch all")

\* (mutant) long double is lowered to the atom of double
PrimitiveOfRule_merging(rule) ==
    CASE rule = "float"                 -> "F32Type"
      [] rule = "double"                -> "F64Type"
      [] rule = "long_double"           -> "F64Type"
      [] rule = "unsigned_short_int"    -> "U16Type"
      [] rule = "unsigned_longlong_int" -> "U64Type"
      [] rule = "unsigned_long_int"     -> "U32Type"
      [] rule = "signed_short_int"      -> "I16Type"
      [] rule = "signed_longlong_int"   -> "I64Type"
      [] rule = "signed_long_int"       -> "I32Type"
      [] rule = "char_type"             -> "CharType"
      [] rule = "wide_char_type"        -> "WideCharType"
      [] rule = "boolean_type"          -> "BooleanType"
      [] rule = "octet_type"            -> "OctetType"

PrimitiveOfRule(rule) ==
    CASE rule = "float"                 -> "F32Type"
      [] rule = "double"                -> "F64Type"
      [] rule = "long_double"           -> "F128Type"
      [] rule = "unsigned_short_int"    -> "U16Type"
      [] rule = "unsigned_longlong_int" -> "U64Type"
      [] rule = "unsigned_long_int"     -> "U32Type"
      [] rule = "signed_short_int"      -> "I16Type"
      [] rule = "signed_longlong_int"   -> "I64Type"
      [] rule = "signed_long_int"       -> "I32Type"
      [] rule = "char_type"             -> "CharType"
      [] rule = "wide_char_type"        -> "WideCharType"
      [] rule = "boolean_type"          -> "BooleanType"
      [] rule = "octet_type"            -> "OctetType"

PrimitiveRules ==
    {"float", "double", "long_double", "unsigned_short_int",
     "unsigned_longlong_int", "unsigned_long_int", "signed_short_int",
     "signed_longlong_int", "signed_long_int", "char_type", "wide_char_type",
     "boolean_type", "octet_type"}

\* (mutant) the bound of a sequence is kept in the type
sequence_type_with_bound(typ_expr, inner) ==
    IF ~typ_expr.ok THEN typ_expr
    ELSE IF Len(inner) = 1 THEN Ok(SequenceType(typ_expr.val))
    ELSE and_then(read_const_expr(inner[2]),
                  LAMBDA bound_expr :
                      Ok(ArrayType(typ_expr.val, << bound_expr >>)))

\* Rule::sequence_type of read_type_spec, given the lowered element
sequence_type_of(typ_expr, inner) ==
    IF ~typ_expr.ok THEN typ_expr
    ELSE IF Len(inner) = 1 THEN Ok(SequenceType(typ_expr.val))
    ELSE and_then(read_const_expr(inner[2]),
                  LAMBDA bound_expr : Ok(SequenceType(typ_expr.val)))

\* Rule::string_type and Rule::wide_string_type of read_type_spec
string_type_of(pair) ==
    IF pair.inner = << >>
    THEN Ok([tag |-> IF pair.rule = "string_type" THEN "StringType"
                     ELSE "WideStringType",
             bound |-> None])
    ELSE and_then(read_const_expr(pair.inner[1]),
             LAMBDA pos_int_const :
                 Ok([tag |-> IF pair.rule = "string_type" THEN "StringType"
                             ELSE "WideStringType",
                     bound |-> Some(pos_int_const)]))

RECURSIVE read_type_spec(_)
read_type_spec(pair) ==
    LET rule  == pair.rule
        inner == pair.inner
    IN
    CASE rule \in PrimitiveRules -> Ok(Primitive(PrimitiveOfRule(rule)))
      [] rule \in {"string_type", "wide_string_type"} -> string_type_of(pair)
      [] rule = "sequence_type" ->
            IF Len(inner) >= 1
            THEN sequence_type_of(read_type_spec(inner[1]), inner)
            ELSE Err("Failed to discover required components to establish a sequence")
      [] rule = "scoped_name" ->
            and_then(read_scoped_name(pair), LAMBDA name : Ok(ScopedNameType(name)))
      [] OTHER ->
            IF Len(inner) >= 1
            THEN read_type_spec(inner[1])
            ELSE Err("Failed find a deeper rule pair to follow")

-----------------------------------------------------------------------------
(* Declarations of the IR and the readers of aggregate members             *)

IdlStructMember(id, type_spec) == [id |-> id, type_spec |-> type_spec]

IdlSwitchElement(id, type_spec) == [id |-> id, type_spec |-> type_spec]

SwitchLabel(expr) == [tag |-> "Label", expr |-> expr]

SwitchDefault == [tag |-> "Default"]

IdlSwitchCase(labels, elem_spec) == [labels |-> labels, elem_spec |-> elem_spec]

\* enum IdlTypeDclKind
TypeDcl(id, type_spec) ==
    [kind |-> "TypeDcl", id |-> id, type_spec |-> type_spec]
StructDcl(id, members) ==
    [kind |-> "StructDcl", id |-> id, members |-> members]
UnionDcl(id, switch_type_spec, switch_body) ==
    [kind |-> "UnionDcl", id |-> id, switch_type_spec |-> switch_type_spec,
     switch_cases |-> switch_body]
EnumDcl(id, enums) ==
    [kind |-> "EnumDcl", id |-> id, enums |-> enums]

IdlConstDcl(id, typedcl, value) ==
    [kind |-> "ConstDcl", id |-> id, typedcl |-> typedcl, value |-> value]

\* the fixed_array_size pairs of an array_declarator, each lowered through the
\* const_expr underneath it
array_sizes_of(sizes) ==
    collect([i \in 1..Len(sizes) |->
        IF sizes[i].inner # << >>
        THEN read_const_expr(sizes[i].inner[1])
        ELSE Err("Pair did not contain a valid 'const expression'")])

\* the (id, type) a declarator pair stands for; id_first tells which of the
\* two is read first (it decides which error is reported)
declarator_of(pair, type_spec, id_first) ==
    IF pair.inner = << >>
    THEN Err("Pair did not contain a either other a simple or arraty declarator")
    ELSE LET decl  == pair.inner[1]
             inner == pair.inner[1].inner
         IN
         CASE decl.rule = "simple_declarator" ->
                IF inner = << >>
                THEN Err("Pair did not contain a valid IDL simple declarator")
                ELSE and_then(read_identifier(inner[1]),
                         LAMBDA id : Ok([id |-> id, type_spec |-> type_spec]))
           [] decl.rule = "array_declarator" ->
                IF inner = << >>
                THEN Err("Pair did not contain a valid IDL array declatator")
                ELSE IF id_first
                THEN and_then2(read_identifier(inner[1]), array_sizes_of(Tail(inner)),
                         LAMBDA id, array_sizes :
                             Ok([id |-> id,
                                 type_spec |-> ArrayType(type_spec, array_sizes)]))
                ELSE and_then2(array_sizes_of(Tail(inner)), read_identifier(inner[1]),
                         LAMBDA array_sizes, id :
                             Ok([id |-> id,
                                 type_spec |-> ArrayType(type_spec, array_sizes)]))
           [] OTHER -> Err("Pair did not contain a valid IDL type rule")

read_struct_member_declarator(pair, type_spec) ==
    declarator_of(pair, type_spec, FALSE)

\* (mutant) the vectors are joined last first
RECURSIVE flatten_reversed(_)
flatten_reversed(seqs) ==
    IF seqs = << >> THEN << >> ELSE flatten_reversed(Tail(seqs)) \o Head(seqs)

\* vec.into_iter().flatten().collect()
RECURSIVE flatten(_)
flatten(seqs) ==
    IF seqs = << >> THEN << >> ELSE Head(seqs) \o flatten(Tail(seqs))

\* member = { type_spec ~ declarators ~ ";" }
read_struct_member(pair) ==
    IF pair.inner = << >>
    THEN Err("Pair did not contain a valid IDL type rule")
    ELSE and_then(read_type_spec(pair.inner[1]),
             LAMBDA type_spec :
                 IF Len(pair.inner) < 2
                 THEN Err("Failed to aquire next declaration pair")
                 ELSE collect([i \in 1..Len(pair.inner[2].inner) |->
                          read_struct_member_declarator(
                              pair.inner[2].inner[i], type_spec)]))

read_switch_element_declarator(pair, type_spec) ==
    declarator_of(pair, type_spec, TRUE)

\* element_spec = { type_spec ~ declarator }
read_switch_element_spec(pair) ==
    IF pair.inner = << >>
    THEN Err("Failed to read type spec from the switch element spec")
    ELSE and_then(read_type_spec(pair.inner[1]),
             LAMBDA type_spec :
                 IF Len(pair.inner) < 2
                 THEN Err("Failed to read declarator from the switch element spec")
                 ELSE read_switch_element_declarator(pair.inner[2], type_spec))

read_switch_type_spec(pair) ==
    IF pair.inner = << >>
    THEN Err("Failed to read associated type for switch type")
    ELSE read_type_spec(pair.inner[1])

\* case_label = { "case" ~ const_expr ~ ":" | "default" ~ ":" }
read_switch_label(pair) ==
    IF pair.inner = << >>
    THEN Ok(SwitchDefault)
    ELSE and_then(read_const_expr(pair.inner[1]), LAMBDA expr : Ok(SwitchLabel(expr)))

\* the subsequence of the pairs with the given rule
filter_rule(pairs, rule) ==
    LET idx == {i \in 1..Len(pairs) : pairs[i].rule = rule}
        nth(k) == CHOOSE i \in idx : Cardinality({j \in idx : j <= i}) = k
    IN  [k \in 1..Cardinality(idx) |-> pairs[nth(k)]]

\* case = { case_label+ ~ element_spec ~ ";" }
\* (pairs without an element_spec are not produced by the grammar: the
\* code unwraps the last one)
read_switch_case(pair) ==
    and_then2(
        collect([i \in 1..Len(filter_rule(pair.inner, "case_label")) |->
                    read_switch_label(filter_rule(pair.inner, "case_label")[i])]),
        read_switch_element_spec(
            filter_rule(pair.inner, "element_spec")[
                Len(filter_rule(pair.inner, "element_spec"))]),
        LAMBDA case_labels, elem_spec : Ok(IdlSwitchCase(case_labels, elem_spec)))

\* switch_body = { case+ }
read_switch_body(pair) ==
    collect([i \in 1..Len(pair.inner) |-> read_switch_case(pair.inner[i])])

-----------------------------------------------------------------------------
(* The loader and the parser (external): a file system maps a file name to *)
(* a missing file or to a text, and a text to its parse (the pairs of      *)
(* Rule::specification, or the parser's error).                            *)

MissingFile == [found |-> FALSE]

TextFile(parse) == [found |-> TRUE, parse |-> parse]

\* IdlLoader::load
load(loader, fname) ==
    IF fname \in DOMAIN loader /\ loader[fname].found
    THEN Ok(loader[fname])
    ELSE Err("io::Error")

\* IdlParser::parse(Rule::specification, &data)
IdlParser_parse(data) == data.parse

\* enum IdlError
FileNotFound(path) == [error |-> "FileNotFound", path |-> path]

ParserError(cause) == [error |-> "ParserError", cause |-> cause]

\* what process returns: the table, the scope and the Result
Walked(root, scope, res) == [root |-> root, scope |-> scope, res |-> res]

Unit == << >>

\* what an arm of process returns once its declaration is lowered: the table
\* with the declaration added and Ok(()), or the table as it is and the
\* error of the lowering (the ? of the arm)
added_or_err(root, scope, dcl, Add(_)) ==
    IF dcl.ok
    THEN Walked(Add(dcl.val), scope, Ok(Unit))
    ELSE Walked(root, scope, Err(ParserError(dcl.err)))

\* the end of process_declarator: the typedef of the declarator d is added,
\* or the error of reading it is returned
declared(root, scope, d) ==
    IF d.ok
    THEN Walked(add_type_dcl(root, scope, d.val.id,
                             TypeDcl(d.val.id, d.val.type_spec)),
                scope, Ok(Unit))
    ELSE Walked(root, scope, d)

\* process_declarator: one declarator of a typedef
process_declarator(root, scope, pair, type_spec) ==
    declared(root, scope, declarator_of(pair, type_spec, TRUE))

\* (mutant) self.process_declarator(scope, p, &type_spec)?: the loop ends at
\* the first declarator that fails
RECURSIVE process_declarators_stopping(_, _, _, _)
process_declarators_stopping(root, scope, pairs, type_spec) ==
    IF pairs = << >>
    THEN root
    ELSE IF ~process_declarator(root, scope, Head(pairs), type_spec).res.ok
    THEN root
    ELSE process_declarators_stopping(
             process_declarator(root, scope, Head(pairs), type_spec).root,
             scope, Tail(pairs), type_spec)

\* for p in any_declarators_pair.into_inner() { let _ = process_declarator }
RECURSIVE process_declarators(_, _, _, _)
process_declarators(root, scope, pairs, type_spec) ==
    IF pairs = << >>
    THEN root
    ELSE process_declarators(
             process_declarator(root, scope, Head(pairs), type_spec).root,
             scope, Tail(pairs), type_spec)

\* (mutant) the struct is added with the members of the lines that lowered,
\* and the error of the others is returned
process_struct_def_partial(root, scope, pair) ==
    IF \A i \in 1..(Len(pair.inner) - 1) : read_struct_member(pair.inner[i + 1]).ok
    THEN Walked(add_type_dcl(root, scope, pair.inner[1].str,
                    StructDcl(pair.inner[1].str,
                        flatten([i \in 1..(Len(pair.inner) - 1) |->
                                    read_struct_member(pair.inner[i + 1]).val]))),
                scope, Ok(Unit))
    ELSE Walked(add_type_dcl(root, scope, pair.inner[1].str,
                    StructDcl(pair.inner[1].str,
                        flatten([i \in 1..(Len(pair.inner) - 1) |->
                                    IF read_struct_member(pair.inner[i + 1]).ok
                                    THEN read_struct_member(pair.inner[i + 1]).val
                                    ELSE << >>]))),
                scope, Err(ParserError("pest::error::Error")))

\* Rule::struct_def
process_struct_def(root, scope, pair) ==
    added_or_err(root, scope,
        collect([i \in 1..(Len(pair.inner) - 1) |->
                    read_struct_member(pair.inner[i + 1])]),
        LAMBDA m1 : add_type_dcl(root, scope, pair.inner[1].str,
                                 StructDcl(pair.inner[1].str, flatten(m1))))

\* Rule::union_def
process_union_def(root, scope, pair) ==
    added_or_err(root, scope,
        and_then3(read_identifier(pair.inner[1]),
                  read_switch_type_spec(pair.inner[2]),
                  read_switch_body(pair.inner[3]),
                  LAMBDA id, switch_type_spec, switch_body :
                      Ok(UnionDcl(id, switch_type_spec, switch_body))),
        LAMBDA dcl : add_type_dcl(root, scope, dcl.id, dcl))

\* Rule::type_declarator
process_type_declarator(root, scope, pair) ==
    added_or_err(root, scope, read_type_spec(pair.inner[1]),
        LAMBDA type_spec :
            process_declarators(root, scope, pair.inner[2].inner, type_spec))

\* Rule::enum_dcl
process_enum_dcl(root, scope, pair) ==
    added_or_err(root, scope,
        collect([i \in 1..(Len(pair.inner) - 1) |->
                    read_identifier(pair.inner[i + 1])]),
        LAMBDA enums : add_type_dcl(root, scope, pair.inner[1].str,
                                    EnumDcl(pair.inner[1].str, enums)))

\* Rule::const_dcl
process_const_dcl(root, scope, pair) ==
    added_or_err(root, scope,
        and_then3(read_type_spec(pair.inner[1]),
                  read_identifier(pair.inner[2]),
                  read_const_expr(pair.inner[3]),
                  LAMBDA type_spec, id, const_expr :
                      Ok(IdlConstDcl(id, type_spec, const_expr))),
        LAMBDA dcl : add_const_dcl(root, scope, dcl.id, dcl))

\* Context::process: walk one pair.  The include graph of the loader is
\* taken to be acyclic (the recursion through include_directive follows it).
RECURSIVE process(_, _, _, _)
RECURSIVE process_each(_, _, _, _, _)
RECURSIVE process_rest(_, _, _, _)

\* for p in pairs { process(p) }, either discarding each Result
\* (let _ = ...) or returning the first error (...?)
process_each(root, scope, loader, pairs, propagate) ==
    IF pairs = << >>
    THEN Walked(root, scope, Ok(Unit))
    ELSE process_rest(process(root, scope, loader, Head(pairs)),
                      loader, Tail(pairs), propagate)

\* (mutant) every loop returns the first error
process_rest_stopping(w, loader, pairs, propagate) ==
    IF ~w.res.ok
    THEN w
    ELSE process_each(w.root, w.scope, loader, pairs, propagate)

\* the rest of the loop, after the first pair was walked with outcome w
process_rest(w, loader, pairs, propagate) ==
    IF ~w.res.ok /\ propagate
    THEN w
    ELSE process_each(w.root, w.scope, loader, pairs, propagate)

\* let _ = ...; Ok(()): the outcome w with its Result discarded
discarded(w) == Walked(w.root, w.scope, Ok(Unit))

\* let _ = scope.pop()
popped(w) == Walked(w.root, SubSeq(w.scope, 1, Len(w.scope) - 1), w.res)

\* (mutant) self.process(scope, loader, p)?: the error of a body item is
\* returned before the scope is popped
process_module_dcl_returning(root, scope, loader, pair) ==
    IF process_each(lookup_module(root, Append(scope, pair.inner[1].str)),
                    Append(scope, pair.inner[1].str), loader,
                    Tail(pair.inner), TRUE).res.ok
    THEN popped(process_each(lookup_module(root, Append(scope, pair.inner[1].str)),
                             Append(scope, pair.inner[1].str), loader,
                             Tail(pair.inner), TRUE))
    ELSE process_each(lookup_module(root, Append(scope, pair.inner[1].str)),
                      Append(scope, pair.inner[1].str), loader,
                      Tail(pair.inner), TRUE)

\* (mutant) the module is inserted anew each time it is opened
process_module_dcl_inserting(root, scope, loader, pair) ==
    discarded(popped(
        process_each(store_module(lookup_module(root, Append(scope, pair.inner[1].str)),
                                  Append(scope, pair.inner[1].str),
                                  IdlModule_new(Some(pair.inner[1].str))),
                     Append(scope, pair.inner[1].str), loader,
                     Tail(pair.inner), FALSE)))

\* Rule::module_dcl
process_module_dcl(root, scope, loader, pair) ==
    discarded(popped(
        process_each(lookup_module(root, Append(scope, pair.inner[1].str)),
                     Append(scope, pair.inner[1].str), loader,
                     Tail(pair.inner), FALSE)))

\* (mutant) the included file is walked under the root scope
process_include_at_root(root, scope, loader, pair) ==
    IF pair.inner = << >>
    THEN Walked(root, scope, Ok(Unit))
    ELSE IF ~load(loader, pair.inner[1].str).ok
    THEN Walked(root, scope, Err(FileNotFound(pair.inner[1].str)))
    ELSE IF ~IdlParser_parse(load(loader, pair.inner[1].str).val).ok
    THEN Walked(root, scope, Err(ParserError("pest::error::Error")))
    ELSE Walked(process_each(root, << >>, loader,
                    IdlParser_parse(load(loader, pair.inner[1].str).val).val,
                    TRUE).root,
                scope, Ok(Unit))

\* Rule::include_directive
process_include_directive(root, scope, loader, pair) ==
    IF pair.inner = << >>
    THEN Walked(root, scope, Ok(Unit))
    ELSE LET fname == pair.inner[1].str
             data  == load(loader, fname)
         IN  IF ~data.ok
             THEN Walked(root, scope, Err(FileNotFound(fname)))
             ELSE LET idl == IdlParser_parse(data.val)
                  IN  IF ~idl.ok
                      THEN Walked(root, scope, Err(ParserError(idl.err)))
                      ELSE process_each(root, scope, loader, idl.val, TRUE)

\* anything else
process_other(root, scope, loader, pair) ==
    discarded(process_each(root, scope, loader, pair.inner, FALSE))

process(root, scope, loader, pair) ==
    CASE pair.rule = "module_dcl"  -> process_module_dcl(root, scope, loader, pair)
      [] pair.rule = "struct_def"  -> process_struct_def(root, scope, pair)
      [] pair.rule = "union_def"   -> process_union_def(root, scope, pair)
      [] pair.rule = "type_declarator" -> process_type_declarator(root, scope, pair)
      [] pair.rule = "enum_dcl"    -> process_enum_dcl(root, scope, pair)
      [] pair.rule = "const_dcl"   -> process_const_dcl(root, scope, pair)
      [] pair.rule = "include_directive" ->
            process_include_directive(root, scope, loader, pair)
      [] OTHER -> process_other(root, scope, loader, pair)

-----------------------------------------------------------------------------
(* Rendering (ast.rs).  A rendered text is a sequence of chunks: literal   *)
(* text the code formats itself, and the output of a template, which is    *)
(* kept as the template's name with the context handed to it.              *)

INDENTION == 4

IMPORT_VEC == "use std::vec::Vec;"

ATTR_ALLOW_UNUSED_IMPORTS == "#[allow(unused_imports)]"

IMPORT_SERDE == "use serde_derive::{Serialize, Deserialize};"

Text(str) == [template |-> "", text |-> str]

\* minijinja_embed::load_templates!: the templates of the crate
AllTemplates ==
    {"module.j2", "struct.j2", "enum.j2", "union_switch.j2", "typedef.j2",
     "const.j2"}

RenderError(template) == [error |-> "RenderError", template |-> template]

\* a panic while rendering (an unwrap of None, unimplemented!()): the process
\* aborts, no Result is returned
Panic == [error |-> "panic"]

\* (mutant) one member for each case, named by its first label
RECURSIVE union_members_by_case(_)
union_members_by_case(switch_cases) ==
    IF switch_cases = << >>
    THEN << >>
    ELSE LET case == Head(switch_cases)
         IN  << [name |-> IF case.labels[1].tag = "Label"
                          THEN IdlValueExpr_fmt(case.labels[1].expr)
                          ELSE "default",
                 element_id   |-> case.elem_spec.id,
                 element_type |-> IdlTypeSpec_fmt(case.elem_spec.type_spec)] >>
             \o union_members_by_case(Tail(switch_cases))

\* the union_members of IdlTypeDcl::render for UnionDcl
RECURSIVE union_members_of(_)
union_members_of(switch_cases) ==
    IF switch_cases = << >>
    THEN << >>
    ELSE LET case == Head(switch_cases)
         IN  [i \in 1..Len(case.labels) |->
                 [name |-> IF case.labels[i].tag = "Label"
                           THEN IdlValueExpr_fmt(case.labels[i].expr)
                           ELSE "default",
                  element_id   |-> case.elem_spec.id,
                  element_type |-> IdlTypeSpec_fmt(case.elem_spec.type_spec)]]
             \o union_members_of(Tail(switch_cases))

\* whether building the context of a type declaration panics
IdlTypeDcl_render_panics(dcl) ==
    CASE dcl.kind = "TypeDcl" -> IdlTypeSpec_fmt_panics(dcl.type_spec)
      [] dcl.kind = "StructDcl" ->
            \E i \in 1..Len(dcl.members) :
                IdlTypeSpec_fmt_panics(dcl.members[i].type_spec)
      [] dcl.kind = "UnionDcl" ->
            \E i \in 1..Len(dcl.switch_cases) :
                \/ IdlTypeSpec_fmt_panics(dcl.switch_cases[i].elem_spec.type_spec)
                \/ \E j \in 1..Len(dcl.switch_cases[i].labels) :
                      /\ dcl.switch_cases[i].labels[j].tag = "Label"
                      /\ IdlValueExpr_fmt_panics(dcl.switch_cases[i].labels[j].expr)
      [] OTHER -> FALSE

TemplateOfKind(kind) ==
    CASE kind = "TypeDcl"   -> "typedef.j2"
      [] kind = "StructDcl" -> "struct.j2"
      [] kind = "EnumDcl"   -> "enum.j2"
      [] kind = "UnionDcl"  -> "union_switch.j2"

\* IdlTypeDcl::render
IdlTypeDcl_render(dcl, env, level) ==
    IF TemplateOfKind(dcl.kind) \notin env
    THEN Err(RenderError(TemplateOfKind(dcl.kind)))
    ELSE IF IdlTypeDcl_render_panics(dcl) THEN Err(Panic)
    ELSE
    CASE dcl.kind = "TypeDcl" ->
            Ok([template     |-> "typedef.j2",
                typedef_name |-> dcl.id,
                typedef_type |-> IdlTypeSpec_fmt(dcl.type_spec),
                indent_level |-> level])
      [] dcl.kind = "StructDcl" ->
            Ok([template    |-> "struct.j2",
                struct_name |-> dcl.id,
                fields      |-> [i \in 1..Len(dcl.members) |->
                                    [name     |-> dcl.members[i].id,
                                     type_str |-> IdlTypeSpec_fmt(
                                                      dcl.members[i].type_spec)]],
                indent_level |-> level])
      [] dcl.kind = "EnumDcl" ->
            Ok([template  |-> "enum.j2",
                enum_name |-> dcl.id,
                variants  |-> dcl.enums,
                indent_level |-> level])
      [] dcl.kind = "UnionDcl" ->
            Ok([template      |-> "union_switch.j2",
                union_name    |-> dcl.id,
                union_members |-> union_members_of(dcl.switch_cases),
                indent_level  |-> level])

\* IdlConstDcl::render
IdlConstDcl_render(dcl, env, level) ==
    IF "const.j2" \notin env THEN Err(RenderError("const.j2"))
    ELSE IF IdlTypeSpec_fmt_panics(dcl.typedcl) \/ IdlValueExpr_fmt_panics(dcl.value)
    THEN Err(Panic)
    ELSE Ok([template    |-> "const.j2",
             const_name  |-> dcl.id,
             const_type  |-> IdlTypeSpec_fmt(dcl.typedcl),
             const_value |-> IdlValueExpr_fmt(dcl.value),
             indent_level |-> level])

\* format!("{:indent$}{ATTR_ALLOW_UNUSED_IMPORTS}\n{:indent$}{import}\n", "", "")
use_line(import, indent) ==
    repeat(" ", indent) \o ATTR_ALLOW_UNUSED_IMPORTS \o "\n"
        \o repeat(" ", indent) \o import \o "\n"

\* the chunks pushed for the entries of self.uses
uses_info(uses, indent) == [i \in 1..Len(uses) |-> Text(use_line(uses[i], indent))]

\* the two imports every render pushes
imports_info(level, add) ==
    << Text(use_line(IMPORT_VEC, (level + add) * INDENTION)),
       Text(use_line(IMPORT_SERDE, (level + add) * INDENTION)) >>

RECURSIVE IdlModule_render(_, _, _)
RECURSIVE render_entries(_, _, _, _, _)
RECURSIVE push_rendered(_, _, _, _, _, _)

\* one of the three loops of IdlModule::render over map.entries(): push the
\* rendering of each entry and a newline to module_info, or return the first
\* error; which tells the map ("types", "modules", "constants")
render_entries(module_info, which, rest, env, level) ==
    IF rest = << >>
    THEN Ok(module_info)
    ELSE push_rendered(module_info,
             CASE which = "types" ->
                    IdlTypeDcl_render(Head(rest).value, env, level)
               [] which = "modules" ->
                    IdlModule_render(Head(rest).value, env, level)
               [] which = "constants" ->
                    IdlConstDcl_render(Head(rest).value, env, level),
             which, Tail(rest), env, level)

\* module_info.push_str(&rendered?); module_info.push('\n'); and the rest
\* of the loop
push_rendered(module_info, rendered, which, rest, env, level) ==
    IF ~rendered.ok
    THEN rendered
    ELSE render_entries(module_info \o << rendered.val, Text("\n") >>,
                        which, rest, env, level)

\* the end of IdlModule::render: the module_info of a named module goes
\* through module.j2, that of the root is returned as it is
module_text(module, env, level, module_info) ==
    IF is_some(module.id)
    THEN IF "module.j2" \in env
         THEN Ok([template           |-> "module.j2",
                  module_name        |-> module.id.val,
                  module_information |-> module_info,
                  indent_level       |-> level])
         ELSE Err(RenderError("module.j2"))
    ELSE Ok(module_info)

\* (mutant) a named module does not deepen the level
add_of_none(module) == 0

\* let add = if self.id.is_some() { 1 } else { 0 }
add_of(module) == IF is_some(module.id) THEN 1 ELSE 0

\* IdlModule::render: Ok(the chunks of the root), Ok(the module.j2 chunk of
\* a named module), or the error
IdlModule_render(module, env, level) ==
    and_then(
        and_then(
            and_then(
                render_entries(
                    uses_info(module.uses, level * INDENTION)
                        \o imports_info(level, add_of(module)),
                    "types", entries(module.types), env, level + add_of(module)),
                LAMBDA module_info :
                    render_entries(module_info, "modules", entries(module.modules), env,
                                   level + add_of(module))),
            LAMBDA module_info :
                render_entries(module_info, "constants", entries(module.constants), env,
                               level + add_of(module))),
        LAMBDA module_info : module_text(module, env, level, module_info))

-----------------------------------------------------------------------------
(* Values the variables take while the part they belong to is not running  *)

NoCall == [op |-> "none", scope |-> << >>, key |-> "", dcl |-> [kind |-> "none"]]

TableIdle == last_call = NoCall /\ calls = 0

WalkIdle == frames = << >> /\ loaded = << >>

DriverIdle ==
    /\ files = << >>
    /\ templates = {}
    /\ pc = "idle"
    /\ root_pairs = << >>
    /\ root_module_text = << >>
    /\ sink = << >>
    /\ returned = None
    /\ hash_seed = 0
    /\ prev_text = None
    /\ runs = 0

LowerIdle == given = << >> /\ lowered = None /\ shown = None /\ reread = None

-----------------------------------------------------------------------------
(* SpecTable: the module table under any sequence of calls of              *)
(* lookup_module, add_type_dcl and add_const_dcl.                          *)

\* the most calls made on the table in one behaviour
MaxCalls == 3

\* the scopes, keys and declarations the calls are made with
TableScopes == { << >>, <<"A">>, <<"A", "B">> }

TableKeys == {"x", "y"}

TableTypeDcls(key) ==
    { TypeDcl(key, Primitive("I32Type")),
      StructDcl(key, <<IdlStructMember("a", Primitive("I16Type"))>>) }

TableConstDcls(key) ==
    { IdlConstDcl(key, Primitive("I32Type"), DecLiteral("1")),
      IdlConstDcl(key, Primitive("I16Type"), DecLiteral("2")) }

InitTable ==
    /\ root_module = Context_new
    /\ cur_scope = << >>
    /\ TableIdle
    /\ WalkIdle
    /\ DriverIdle
    /\ LowerIdle

CallLookupModule ==
    /\ calls < MaxCalls
    /\ \E s \in TableScopes :
          /\ root_module' = lookup_module(root_module, s)
          /\ last_call' = [op |-> "lookup_module", scope |-> s, key |-> "",
                           dcl |-> [kind |-> "none"]]
    /\ calls' = calls + 1
    /\ UNCHANGED <<cur_scope, driverVars, lowerVars, runVars, walkVars>>

CallAddTypeDcl ==
    /\ calls < MaxCalls
    /\ \E s \in TableScopes, key \in TableKeys :
          \E type_dcl \in TableTypeDcls(key) :
              /\ root_module' = add_type_dcl(root_module, s, key, type_dcl)
              /\ last_call' = [op |-> "add_type_dcl", scope |-> s, key |-> key,
                               dcl |-> type_dcl]
    /\ calls' = calls + 1
    /\ UNCHANGED <<cur_scope, driverVars, lowerVars, runVars, walkVars>>

CallAddConstDcl ==
    /\ calls < MaxCalls
    /\ \E s \in TableScopes, key \in TableKeys :
          \E const_dcl \in TableConstDcls(key) :
              /\ root_module' = add_const_dcl(root_module, s, key, const_dcl)
              /\ last_call' = [op |-> "add_const_dcl", scope |-> s, key |-> key,
                               dcl |-> const_dcl]
    /\ calls' = calls + 1
    /\ UNCHANGED <<cur_scope, driverVars, lowerVars, runVars, walkVars>>

NextTable == CallLookupModule \/ CallAddTypeDcl \/ CallAddConstDcl

SpecTable == InitTable /\ [][NextTable]_vars

\* the types (which = "types") or constants map of the module at path s,
\* empty while the module does not exist
MapAt(root, s, which) ==
    IF has_module(root, s)
    THEN IF which = "types" THEN module_at(root, s).types
         ELSE module_at(root, s).constants
    ELSE << >>

MapOfCall(op) == IF op = "add_type_dcl" THEN "types" ELSE "constants"

\* a map keeps every entry it has, with its value, at its position
KeepsEntries(old, new) ==
    /\ Len(new) >= Len(old)
    /\ \A i \in 1..Len(old) : new[i] = old[i]

FirstWinsStep ==
    /\ \A s \in TableScopes : \A which \in {"types", "constants"} :
          KeepsEntries(MapAt(root_module, s, which), MapAt(root_module', s, which))
    /\ last_call'.op \in {"add_type_dcl", "add_const_dcl"} =>
          LET c   == last_call'
              old == MapAt(root_module, c.scope, MapOfCall(c.op))
              new == MapAt(root_module', c.scope, MapOfCall(c.op))
          IN  IF contains_key(old, c.key)
              THEN new = old
              ELSE new = Append(old, [key |-> c.key, value |-> c.dcl])

\* C1: under any sequence of add_type_dcl and add_const_dcl calls, a call for
\* a (scope, key) that has no entry yet appends the declaration it passes as
\* the last entry of the scope's map, and a call for a (scope, key) that has
\* an entry changes nothing; no call changes the value or the position of an
\* entry already stored.  So the entry under a key is the declaration of
\* the first call for it, at the position that call gave it.
C1_FirstCallWins == [][FirstWinsStep]_vars

\* C1 witness: a later call for a stored (scope, key) passed another
\* declaration than the stored one, and the stored one is still the first.
C1_Witness ==
    /\ last_call.op \in {"add_type_dcl", "add_const_dcl"}
    /\ calls >= 2
    /\ LET map == MapAt(root_module, last_call.scope, MapOfCall(last_call.op))
       IN  /\ contains_key(map, last_call.key)
           /\ get(map, last_call.key) # last_call.dcl
           /\ index_of(map, last_call.key) < Len(map)

-----------------------------------------------------------------------------
(* The pairs the parser produces for IDL text (the grammar is external;    *)
(* the shapes are those of the productions quoted in lib.rs).              *)

identifier(id) == Pair("identifier", id, << >>)

\* simple_type_spec > base_type_spec > a primitive keyword production
base_type(rule, str) ==
    Pair("simple_type_spec", str, <<Pair("base_type_spec", str, <<Pair(rule, str, << >>)>>)>>)

\* const_expr > unary_expr > primary_expr > literal > a literal production
literal_expr(rule, str) ==
    Pair("const_expr", str,
        <<Pair("unary_expr", str,
            <<Pair("primary_expr", str,
                <<Pair("literal", str, <<Pair(rule, str, << >>)>>)>>)>>)>>)

\* a constant expression whose literal is of a production read_const_expr
\* has no arm for and that has no children (the fixed-point literal of IDL):
\* read_const_expr fails on it in the catch-all arm
unreadable_expr == literal_expr("fixed_pt_literal", "1.5d")

\* string<bound> / wstring<bound>
string_type(rule, bounds) ==
    Pair("template_type_spec", "string", <<Pair(rule, "string", bounds)>>)

\* sequence<elem> / sequence<elem, bound>
sequence_type(elem, bounds) ==
    Pair("template_type_spec", "sequence",
        <<Pair("sequence_type", "sequence", <<elem>> \o bounds)>>)

\* "::"? ~ identifier ~ ("::" ~ identifier)*
RECURSIVE join(_, _)
join(strs, sep) ==
    IF strs = << >> THEN ""
    ELSE IF Len(strs) = 1 THEN strs[1]
    ELSE strs[1] \o sep \o join(Tail(strs), sep)

scoped_name(ids, leading) ==
    Pair("scoped_name", (IF leading THEN "::" ELSE "") \o join(ids, "::"),
         [i \in 1..Len(ids) |-> identifier(ids[i])])

simple_declarator(id) ==
    Pair("declarator", id, <<Pair("simple_declarator", id, <<identifier(id)>>)>>)

array_declarator(id, sizes) ==
    Pair("declarator", id,
        <<Pair("array_declarator", id,
            <<identifier(id)>>
            \o [i \in 1..Len(sizes) |-> Pair("fixed_array_size", "", <<sizes[i]>>)])>>)

\* typedef type_spec declarators
type_declarator(type_spec, declarators) ==
    Pair("type_declarator", "typedef",
        <<type_spec,
          Pair("any_declarators", "",
              [i \in 1..Len(declarators) |->
                  Pair("any_declarator", "", declarators[i].inner)])>>)

\* member = { type_spec ~ declarators ~ ";" }
member(type_spec, declarators) ==
    Pair("member", "", <<type_spec, Pair("declarators", "", declarators)>>)

struct_def(id, members) ==
    Pair("struct_def", "struct", <<identifier(id)>> \o members)

enum_dcl(id, enumerators) ==
    Pair("enum_dcl", "enum",
        <<identifier(id)>>
        \o [i \in 1..Len(enumerators) |-> Pair("enumerator", enumerators[i], << >>)])

case_label(exprs) == Pair("case_label", "", exprs)

element_spec(type_spec, declarator) ==
    Pair("element_spec", "", <<type_spec, declarator>>)

case(labels, elem) == Pair("case", "", labels \o <<elem>>)

union_def(id, switch_type, cases) ==
    Pair("union_def", "union",
        <<identifier(id),
          Pair("switch_type_spec", "", <<switch_type>>),
          Pair("switch_body", "", cases)>>)

const_dcl(type_spec, id, expr) ==
    Pair("const_dcl", "const", <<Pair("const_type", "", <<type_spec>>),
                                 identifier(id), expr>>)

include_directive(path) ==
    Pair("include_directive", "#include", <<Pair("path_spec", path, << >>)>>)

module_dcl(id, definitions) ==
    Pair("module_dcl", "module", <<identifier(id)>> \o definitions)

\* definition = { ... }: the production every declaration is wrapped in
definition(dcl) == Pair("definition", "", <<dcl>>)

\* the pairs of Rule::specification for a text with these definitions
specification(definitions) == <<Pair("specification", "", definitions)>>

-----------------------------------------------------------------------------
(* Spec: generate_with_loader on a root file drawn from a bounded set of   *)
(* texts, with the files it can include.                                   *)

\* the most definitions in the root file
MaxDefs == 3

long_type == base_type("signed_long_int", "long")

short_type == base_type("signed_short_int", "short")

dec_expr(str) == literal_expr("decimal_integer_literal", str)

\* declarations of x, one of each kind
StructX == struct_def("x", <<member(long_type, <<simple_declarator("a")>>)>>)

UnionX ==
    union_def("x", long_type,
        <<case(<<case_label(<<dec_expr("0")>>)>>,
               element_spec(long_type, simple_declarator("l")))>>)

EnumX == enum_dcl("x", <<"V0">>)

TypedefX == type_declarator(short_type, <<simple_declarator("x")>>)

ConstX == const_dcl(long_type, "x", dec_expr("1"))

\* typedef string<1.5d> y: the bound cannot be lowered
TypedefBadBound ==
    type_declarator(string_type("string_type", <<unreadable_expr>>),
                    <<simple_declarator("y")>>)

\* the definitions a module body is drawn from
BodyItems ==
    { definition(StructX), definition(ConstX),
      include_directive("inner.idl"), include_directive("missing.idl"),
      definition(module_dcl("B", <<definition(StructX)>>)) }

\* the definitions the root file is drawn from
RootItems ==
    { definition(StructX), definition(UnionX), definition(EnumX),
      definition(TypedefX), definition(ConstX), definition(TypedefBadBound),
      include_directive("inner.idl"), include_directive("other.idl"),
      include_directive("missing.idl"), include_directive("reopen.idl") }
    \cup { definition(module_dcl("A", <<item>>)) : item \in BodyItems }
    \cup { definition(module_dcl("A", << include_directive("missing.idl"),
                                         definition(StructX) >>)) }

\* the sequences over S of length at most n
RECURSIVE SeqsUpTo(_, _)
SeqsUpTo(S, n) ==
    IF n = 0
    THEN { << >> }
    ELSE LET shorter == SeqsUpTo(S, n - 1)
         IN  shorter \cup { Append(q, x) : q \in shorter, x \in S }

\* inner.idl: struct x { short b; }; typedef long z;
InnerIdl ==
    specification(
        <<definition(struct_def("x", <<member(short_type, <<simple_declarator("b")>>)>>)),
          definition(type_declarator(long_type, <<simple_declarator("z")>>))>>)

\* other.idl: #include "inner.idl"  enum w { V0 };
OtherIdl ==
    specification(<<include_directive("inner.idl"),
                    definition(enum_dcl("w", <<"V0">>))>>)

\* reopen.idl: module C { typedef long z; };
\*             module A { struct x { short b; }; typedef long z; };
ReopenIdl ==
    specification(
        <<definition(module_dcl("C",
              <<definition(type_declarator(long_type, <<simple_declarator("z")>>))>>)),
          definition(module_dcl("A", InnerIdl[1].inner))>>)

\* Configuration.idl_file
idl_file == "root.idl"

Loader(root) ==
    (idl_file :> root) @@ ("inner.idl" :> TextFile(Ok(InnerIdl)))
        @@ ("other.idl" :> TextFile(Ok(OtherIdl)))
        @@ ("reopen.idl" :> TextFile(Ok(ReopenIdl)))

\* the values std::collections::hash_map::RandomState can give the hasher
\* of the maps of a process (two stand for all)
HashSeeds == {0, 1}

\* the state a process starts in, for a root file of at most max_defs
\* definitions
InitOf(max_defs) ==
    /\ root_module = Context_new
    /\ cur_scope = << >>
    /\ TableIdle
    /\ WalkIdle
    /\ LowerIdle
    /\ pc = "start"
    /\ root_pairs = << >>
    /\ root_module_text = << >>
    /\ sink = << >>
    /\ returned = None
    /\ hash_seed \in HashSeeds
    /\ prev_text = None
    /\ runs = 1
    /\ \/ /\ templates = AllTemplates
          /\ \E defs \in SeqsUpTo(RootItems, max_defs) :
                files = Loader(TextFile(Ok(specification(defs))))
       \/ /\ templates = AllTemplates
          /\ files \in { Loader(MissingFile),
                         Loader(TextFile(Err("pest::error::Error"))) }
       \/ /\ templates \in { AllTemplates \ {t} : t \in AllTemplates }
          /\ files = Loader(TextFile(Ok(specification(
                         <<definition(StructX),
                           definition(module_dcl("A", <<definition(ConstX)>>))>>))))

Init == InitOf(MaxDefs)

\* let idl_file_data = loader.load(&idl_file).map_err(FileNotFound)?
LoadRoot ==
    /\ pc = "start"
    /\ IF load(files, idl_file).ok
       THEN pc' = "loaded" /\ UNCHANGED returned
       ELSE pc' = "returned" /\ returned' = Err(FileNotFound(idl_file))
    /\ UNCHANGED <<ctxVars, tableVars, walkVars, lowerVars, runVars, files, templates, root_pairs,
                   root_module_text, sink>>

\* let idl = IdlParser::parse(Rule::specification, &idl_file_data)?
ParseRoot ==
    /\ pc = "loaded"
    /\ LET parsed == IdlParser_parse(load(files, idl_file).val)
       IN  IF parsed.ok
           THEN pc' = "walking" /\ root_pairs' = parsed.val /\ UNCHANGED returned
           ELSE /\ pc' = "returned"
                /\ returned' = Err(ParserError(parsed.err))
                /\ UNCHANGED root_pairs
    /\ UNCHANGED <<ctxVars, tableVars, walkVars, lowerVars, runVars, files, templates,
                   root_module_text, sink>>

\* for p in idl { let _ = ctx.process(&mut scope, loader, p); }
WalkPair ==
    /\ pc = "walking"
    /\ root_pairs # << >>
    /\ LET w == process(root_module, cur_scope, files, Head(root_pairs))
       IN  /\ root_module' = w.root
           /\ cur_scope' = w.scope
    /\ root_pairs' = Tail(root_pairs)
    /\ UNCHANGED <<tableVars, walkVars, lowerVars, runVars, files, templates, pc,
                   root_module_text, sink, returned>>

\* (mutant) the text is written as it is rendered: the first line is in the
\* sink when a template is found missing
Render_writing ==
    /\ pc = "walking"
    /\ root_pairs = << >>
    /\ LET r == IdlModule_render(root_module, templates, 0)
       IN  /\ pc' = IF r.ok THEN "rendered"
                    ELSE IF r.err = Panic THEN "panicked" ELSE "returned"
           /\ root_module_text' = IF r.ok THEN r.val ELSE root_module_text
           /\ returned' = IF r.ok \/ r.err = Panic THEN returned ELSE Err(r.err)
           /\ sink' = IF r.ok THEN sink ELSE << Text(ATTR_ALLOW_UNUSED_IMPORTS) >>
    /\ UNCHANGED <<ctxVars, tableVars, walkVars, lowerVars, runVars, files, templates,
                   root_pairs>>

\* (mutant) a render through `&mut self` that takes the maps out of the
\* module it renders
Render_taking ==
    /\ pc = "walking"
    /\ root_pairs = << >>
    /\ LET r == IdlModule_render(root_module, templates, 0)
       IN  /\ pc' = IF r.ok THEN "rendered"
                    ELSE IF r.err = Panic THEN "panicked" ELSE "returned"
           /\ root_module_text' = IF r.ok THEN r.val ELSE root_module_text
           /\ returned' = IF r.ok \/ r.err = Panic THEN returned ELSE Err(r.err)
    /\ root_module' = Context_new
    /\ UNCHANGED <<cur_scope, tableVars, walkVars, lowerVars, runVars, files, templates,
                   root_pairs, sink>>

\* let root_module_text = ctx.root_module.render(&env, 0)?
Render ==
    /\ pc = "walking"
    /\ root_pairs = << >>
    /\ LET r == IdlModule_render(root_module, templates, 0)
       IN  /\ pc' = IF r.ok THEN "rendered"
                    ELSE IF r.err = Panic THEN "panicked" ELSE "returned"
           /\ root_module_text' = IF r.ok THEN r.val ELSE root_module_text
           /\ returned' = IF r.ok \/ r.err = Panic THEN returned ELSE Err(r.err)
    /\ UNCHANGED <<ctxVars, tableVars, walkVars, lowerVars, runVars, files, templates, root_pairs,
                   sink>>

\* Ok(write!(out, "{root_module_text}")?): the sink takes the text or fails
Write ==
    /\ pc = "rendered"
    /\ \/ sink' = sink \o root_module_text /\ returned' = Ok(Unit)
       \/ UNCHANGED sink /\ returned' = Err([error |-> "WriteError"])
    /\ pc' = "returned"
    /\ UNCHANGED <<ctxVars, tableVars, walkVars, lowerVars, runVars, files, templates, root_pairs,
                   root_module_text>>

Next == LoadRoot \/ ParseRoot \/ WalkPair \/ Render \/ Write

Spec == Init /\ [][Next]_vars

\* the most times the generator is started
MaxRuns == 2

\* the most definitions in the root file of a generator started again
MaxRunDefs == 2

\* the generator is started again, as a new process, on the same files with
\* the same templates
RunAgain ==
    /\ pc = "returned"
    /\ runs < MaxRuns
    /\ runs' = runs + 1
    /\ hash_seed' \in HashSeeds
    /\ prev_text' = IF returned.ok THEN Some(sink) ELSE None
    /\ root_module' = Context_new
    /\ cur_scope' = << >>
    /\ pc' = "start"
    /\ root_pairs' = << >>
    /\ root_module_text' = << >>
    /\ sink' = << >>
    /\ returned' = None
    /\ UNCHANGED <<tableVars, walkVars, lowerVars, files, templates>>

InitRuns == InitOf(MaxRunDefs)

NextRuns == LoadRoot \/ ParseRoot \/ WalkPair \/ Render \/ Write \/ RunAgain

SpecRuns == InitRuns /\ [][NextRuns]_vars

\* main: the exit status for what generate_with_search_path returned
main_exit(res) == IF res.ok THEN 0 ELSE 1

-----------------------------------------------------------------------------
(* What the source declares and what the output holds                      *)

\* the pairs of the root file
RootPairs == IdlParser_parse(load(files, idl_file).val).val

\* the declaration lowered from `pair` alone: Some(the entry stored under id
\* in the map of an empty table) or None when nothing was stored
entry_of(root, map, id) ==
    IF contains_key(root[map], id) THEN Some(get(root[map], id)) ELSE None

lowered_alone(loader, pair, map, id) ==
    entry_of(process(Context_new, << >>, loader, pair).root, map, id)

SourceDcl(scope, map, id, dcl) ==
    [scope |-> scope, map |-> map, id |-> id, dcl |-> dcl]

\* the declarations the text declares, in source order, each with the scope
\* it is written in; an #include stands for the pairs of the included file
RECURSIVE source_dcls(_, _, _)
source_dcls(loader, pairs, scope) ==
    IF pairs = << >>
    THEN << >>
    ELSE LET pair == Head(pairs)
         IN  (CASE pair.rule \in {"struct_def", "union_def", "enum_dcl"} ->
                    << SourceDcl(scope, "types", pair.inner[1].str,
                           lowered_alone(loader, pair, "types", pair.inner[1].str)) >>
                [] pair.rule = "const_dcl" ->
                    << SourceDcl(scope, "constants", pair.inner[2].str,
                           lowered_alone(loader, pair, "constants", pair.inner[2].str)) >>
                [] pair.rule = "type_declarator" ->
                    [i \in 1..Len(pair.inner[2].inner) |->
                        SourceDcl(scope, "types",
                            pair.inner[2].inner[i].inner[1].inner[1].str,
                            lowered_alone(loader, pair, "types",
                                pair.inner[2].inner[i].inner[1].inner[1].str))]
                [] pair.rule = "module_dcl" ->
                    source_dcls(loader, Tail(pair.inner),
                                Append(scope, pair.inner[1].str))
                [] pair.rule = "include_directive" ->
                    IF /\ load(loader, pair.inner[1].str).ok
                       /\ IdlParser_parse(load(loader, pair.inner[1].str).val).ok
                    THEN source_dcls(loader,
                             IdlParser_parse(load(loader, pair.inner[1].str).val).val,
                             scope)
                    ELSE << >>
                [] OTHER -> source_dcls(loader, pair.inner, scope))
             \o source_dcls(loader, Tail(pairs), scope)

\* the declarations of the run's input
Source == source_dcls(files, RootPairs, << >>)

\* the templates that render a declaration of each map
TypeTemplates == {"typedef.j2", "struct.j2", "enum.j2", "union_switch.j2"}

ConstTemplates == {"const.j2"}

\* the name a declaration chunk was rendered for
name_of(chunk) ==
    CASE chunk.template = "typedef.j2"      -> chunk.typedef_name
      [] chunk.template = "struct.j2"       -> chunk.struct_name
      [] chunk.template = "enum.j2"         -> chunk.enum_name
      [] chunk.template = "union_switch.j2" -> chunk.union_name
      [] chunk.template = "const.j2"        -> chunk.const_name
      [] chunk.template = "module.j2"       -> chunk.module_name
      [] OTHER -> ""

\* the elements of a sequence
Range(seq) == {seq[i] : i \in 1..Len(seq)}

\* the concatenation of a sequence of sequences
RECURSIVE concat(_)
concat(seqs) == IF seqs = << >> THEN << >> ELSE Head(seqs) \o concat(Tail(seqs))

\* the chunks of `text` that the given templates rendered for name `id`
chunks_named(text, tmpls, id) ==
    SelectSeq(text, LAMBDA c : c.template \in tmpls /\ name_of(c) = id)

\* the chunks inside the nested module blocks named by `scope`
RECURSIVE chunks_at(_, _)
chunks_at(text, scope) ==
    IF scope = << >>
    THEN text
    ELSE LET blocks == chunks_named(text, {"module.j2"}, Head(scope))
         IN  chunks_at(concat([i \in 1..Len(blocks) |-> blocks[i].module_information]),
                       Tail(scope))

TemplatesOfMap(map) == IF map = "types" THEN TypeTemplates ELSE ConstTemplates

\* the chunk a lowered declaration renders to at the given level
chunk_of(dcl, level) ==
    IF dcl.kind = "ConstDcl"
    THEN IdlConstDcl_render(dcl, AllTemplates, level).val
    ELSE IdlTypeDcl_render(dcl, AllTemplates, level).val

\* the source declarations of id in scope (of one map, or of both) that
\* lower without an error
dcls_of(scope, maps, id) ==
    SelectSeq(Source, LAMBDA d : /\ d.scope = scope /\ d.id = id
                                 /\ d.map \in maps /\ is_some(d.dcl))

SourceScopes == {Source[i].scope : i \in 1..Len(Source)}

SourceIds == {Source[i].id : i \in 1..Len(Source)}

-----------------------------------------------------------------------------
(* Include idempotence                                                     *)

\* whether the loader has a text for the file and the text parses
readable(loader, fname) ==
    load(loader, fname).ok /\ IdlParser_parse(load(loader, fname).val).ok

pairs_of(loader, fname) == IdlParser_parse(load(loader, fname).val).val

\* the (scope, file) of every #include of a readable file the walk comes to,
\* in the order it comes to them
RECURSIVE include_events(_, _, _)
include_events(loader, pairs, scope) ==
    IF pairs = << >>
    THEN << >>
    ELSE (CASE Head(pairs).rule = "include_directive" ->
                 IF readable(loader, Head(pairs).inner[1].str)
                 THEN << <<scope, Head(pairs).inner[1].str>> >>
                      \o include_events(loader,
                             pairs_of(loader, Head(pairs).inner[1].str), scope)
                 ELSE << >>
            [] Head(pairs).rule = "module_dcl" ->
                 include_events(loader, Tail(Head(pairs).inner),
                                Append(scope, Head(pairs).inner[1].str))
            [] Head(pairs).rule \in {"definition", "specification"} ->
                 include_events(loader, Head(pairs).inner, scope)
            [] OTHER -> << >>)
         \o include_events(loader, Tail(pairs), scope)

\* pairs with the (scope, file) includes seen so far
Included(pairs, seen) == [pairs |-> pairs, seen |-> seen]

\* `front` followed by the pairs of `rest`
joined(front, rest) == Included(front \o rest.pairs, rest.seen)

\* `pair` with the pairs of `sub` for children, after the children `kept`
rebuilt(pair, kept, sub) ==
    Included(<< Pair(pair.rule, pair.str, kept \o sub.pairs) >>, sub.seen)

\* the text with every file included exactly once per scope, at the place of
\* its first #include: the first #include of a readable file is replaced by
\* the pairs of the file, a later one of the same file in the same scope is
\* dropped (an #include of an unreadable file stays as it is)
RECURSIVE include_once(_, _, _, _)
RECURSIVE include_once_pair(_, _, _, _)
RECURSIVE include_once_rest(_, _, _, _)
include_once(loader, pairs, scope, seen) ==
    IF pairs = << >>
    THEN Included(<< >>, seen)
    ELSE include_once_rest(loader,
             include_once_pair(loader, Head(pairs), scope, seen),
             Tail(pairs), scope)

include_once_rest(loader, first, pairs, scope) ==
    joined(first.pairs, include_once(loader, pairs, scope, first.seen))

include_once_pair(loader, pair, scope, seen) ==
    CASE pair.rule = "include_directive" ->
            IF <<scope, pair.inner[1].str>> \in seen
            THEN Included(<< >>, seen)
            ELSE IF readable(loader, pair.inner[1].str)
            THEN include_once(loader, pairs_of(loader, pair.inner[1].str), scope,
                              seen \cup { <<scope, pair.inner[1].str>> })
            ELSE Included(<< pair >>, seen)
      [] pair.rule = "module_dcl" ->
            rebuilt(pair, << pair.inner[1] >>,
                    include_once(loader, Tail(pair.inner),
                                 Append(scope, pair.inner[1].str), seen))
      [] pair.rule \in {"definition", "specification"} ->
            rebuilt(pair, << >>, include_once(loader, pair.inner, scope, seen))
      [] OTHER -> Included(<< pair >>, seen)

\* what generation renders for a text with the given pairs
generated(loader, env, pairs) ==
    IdlModule_render(process_each(Context_new, << >>, loader, pairs, FALSE).root,
                     env, 0)

\* C3: the text rendered for a root file equals the text rendered for the
\* root file with every file included exactly once per scope, at the place of
\* its first #include.
C3_IncludeIdempotent ==
    pc = "rendered" =>
        Ok(root_module_text)
            = generated(files, templates,
                        include_once(files, RootPairs, << >>, {}).pairs)

\* C3 witness: a rendered text for a root file that comes to the same file
\* twice in the same scope, with a declaration of that file in the output
C3_Witness ==
    /\ pc = "rendered"
    /\ \E i, j \in 1..Len(include_events(files, RootPairs, << >>)) :
          /\ i < j
          /\ include_events(files, RootPairs, << >>)[i]
                = include_events(files, RootPairs, << >>)[j]
          /\ chunks_named(
                 chunks_at(root_module_text,
                           include_events(files, RootPairs, << >>)[i][1]),
                 TypeTemplates, "z") # << >>

-----------------------------------------------------------------------------
(* Reproducibility                                                         *)

-----------------------------------------------------------------------------
(* Errors of the walk                                                      *)

\* every pair of the text, with the pairs of the files it includes, in the
\* order of the text
RECURSIVE all_pairs(_, _)
all_pairs(loader, pairs) ==
    IF pairs = << >>
    THEN << >>
    ELSE << Head(pairs) >>
         \o (IF Head(pairs).rule = "include_directive"
             THEN IF readable(loader, Head(pairs).inner[1].str)
                  THEN all_pairs(loader, pairs_of(loader, Head(pairs).inner[1].str))
                  ELSE << >>
             ELSE all_pairs(loader, Head(pairs).inner))
         \o all_pairs(loader, Tail(pairs))

\* the files named by an #include that the loader has no text for
missing_includes ==
    { p.inner[1].str : p \in
        { q \in Range(all_pairs(files, RootPairs)) :
            /\ q.rule = "include_directive"
            /\ ~load(files, q.inner[1].str).ok } }

\* C4 (as claimed): when the text comes to an #include of a file the loader
\* has no text for, generate_with_loader returns Err(FileNotFound(path)) and
\* the exit status is not 0.
C4_MissingIncludeFails ==
    (pc = "returned" /\ readable(files, idl_file) /\ missing_includes # {}) =>
        /\ ~returned.ok
        /\ \E path \in missing_includes : returned.err = FileNotFound(path)
        /\ main_exit(returned) # 0

\* a string, wide string or sequence type whose bound read_const_expr fails on
bound_fails(pair) ==
    \/ /\ pair.rule \in {"string_type", "wide_string_type"}
       /\ pair.inner # << >>
       /\ ~read_const_expr(pair.inner[1]).ok
    \/ /\ pair.rule = "sequence_type"
       /\ Len(pair.inner) >= 2
       /\ ~read_const_expr(pair.inner[2]).ok

\* C8 (as claimed): when the text holds a bounded string or sequence whose
\* bound read_const_expr fails on, generate_with_loader returns an error and
\* nothing is written.
C8_BoundErrorFails ==
    (/\ pc = "returned"
     /\ readable(files, idl_file)
     /\ \E p \in Range(all_pairs(files, RootPairs)) : bound_fails(p)) =>
        ~returned.ok /\ sink = << >>

-----------------------------------------------------------------------------
(* Scope fidelity                                                          *)

\* every declaration chunk of the text, with the names of the module blocks
\* it is nested in (outermost first)
RECURSIVE placed_chunks(_, _)
placed_chunks(text, path) ==
    IF text = << >>
    THEN << >>
    ELSE (IF Head(text).template = "module.j2"
          THEN placed_chunks(Head(text).module_information,
                             Append(path, Head(text).module_name))
          ELSE IF Head(text).template \in TypeTemplates \cup ConstTemplates
          THEN << [path |-> path, chunk |-> Head(text)] >>
          ELSE << >>)
         \o placed_chunks(Tail(text), path)

\* every module block of the text, with the names of the blocks around it
RECURSIVE placed_blocks(_, _)
placed_blocks(text, path) ==
    IF text = << >>
    THEN << >>
    ELSE (IF Head(text).template = "module.j2"
          THEN << [path |-> path, chunk |-> Head(text)] >>
               \o placed_blocks(Head(text).module_information,
                                Append(path, Head(text).module_name))
          ELSE << >>)
         \o placed_blocks(Tail(text), path)

\* the declarations of the source that are recorded: the first of each
\* (scope, map, identifier) that lowers
recorded ==
    SelectSeq(Source, LAMBDA d :
        /\ is_some(d.dcl)
        /\ d = dcls_of(d.scope, {d.map}, d.id)[1])

\* C6: when the text is rendered, each recorded declaration of source scope
\* [m1..mk] has exactly one chunk in the text, nested in exactly the module
\* blocks m1..mk (outermost first) and rendered with indent_level k; the text
\* has no other declaration chunk; and a module block nested in j blocks is
\* rendered with indent_level j, so that the root adds no block and level 0
\* and each block deepens the level of what it holds by 1.
C6_ScopeFidelity ==
    pc = "rendered" =>
        /\ \A d \in Range(recorded) :
              Cardinality({ i \in 1..Len(placed_chunks(root_module_text, << >>)) :
                    LET c == placed_chunks(root_module_text, << >>)[i]
                    IN  /\ c.chunk.template \in TemplatesOfMap(d.map)
                        /\ name_of(c.chunk) = d.id
                        /\ c.path = d.scope
                        /\ c.chunk.indent_level = Len(d.scope) }) = 1
        /\ Len(placed_chunks(root_module_text, << >>))
              = Cardinality({ <<d.scope, d.map, d.id>> : d \in Range(recorded) })
        /\ \A b \in Range(placed_blocks(root_module_text, << >>)) :
              b.chunk.indent_level = Len(b.path)

\* C6 witness: a declaration written in module B of module A is rendered in
\* block B of block A with indent_level 2
C6_Witness ==
    /\ pc = "rendered"
    /\ \E d \in Range(recorded) :
          /\ d.scope = <<"A", "B">>
          /\ \E c \in Range(placed_chunks(root_module_text, << >>)) :
                /\ c.path = <<"A", "B">>
                /\ name_of(c.chunk) = d.id
                /\ c.chunk.indent_level = 2

-----------------------------------------------------------------------------
(* SpecLower: a member of a struct or a typedef, drawn from a bounded set  *)
(* of texts, is lowered and the type of each declarator is displayed.      *)

\* the most dimensions of an array declarator
MaxDims == 3

\* simple_type_spec > scoped_name
scoped_type(ids, leading) ==
    Pair("simple_type_spec", scoped_name(ids, leading).str,
         << scoped_name(ids, leading) >>)

\* const_expr > unary_expr > primary_expr > scoped_name
name_expr(ids, leading) ==
    Pair("const_expr", scoped_name(ids, leading).str,
        << Pair("unary_expr", scoped_name(ids, leading).str,
            << Pair("primary_expr", scoped_name(ids, leading).str,
                   << scoped_name(ids, leading) >>) >>) >>)

\* the bounds of a string or a sequence: none, 10, A::length, and one that
\* read_const_expr fails on
Bounds ==
    { << >>, << dec_expr("10") >>, << name_expr(<<"A", "length">>, FALSE) >>,
      << unreadable_expr >> }

StringTypes ==
    { string_type(rule, bound) :
        rule \in {"string_type", "wide_string_type"}, bound \in Bounds }

\* the element types of a sequence
ElementTypes ==
    { long_type, base_type("octet_type", "octet"),
      scoped_type(<<"A", "Foo">>, FALSE), scoped_type(<<"A", "Foo">>, TRUE),
      sequence_type(long_type, << >>),
      sequence_type(long_type, << dec_expr("10") >>) }
    \cup StringTypes

SequenceTypes ==
    { sequence_type(elem, bound) : elem \in ElementTypes, bound \in Bounds }

TypeSpecs == ElementTypes \cup SequenceTypes

\* the sizes of an array declarator
DimExprs == { dec_expr("2"), dec_expr("3"), name_expr(<<"A", "length">>, FALSE) }

Declarators ==
    { simple_declarator("m") }
    \cup { array_declarator("m", sizes) :
             sizes \in SeqsUpTo(DimExprs, MaxDims) \ { << >> } }

\* the keyword each primitive production is written with
KeywordOfRule(rule) ==
    CASE rule = "float"                 -> "float"
      [] rule = "double"                -> "double"
      [] rule = "long_double"           -> "long double"
      [] rule = "unsigned_short_int"    -> "unsigned short"
      [] rule = "unsigned_longlong_int" -> "unsigned long long"
      [] rule = "unsigned_long_int"     -> "unsigned long"
      [] rule = "signed_short_int"      -> "short"
      [] rule = "signed_longlong_int"   -> "long long"
      [] rule = "signed_long_int"       -> "long"
      [] rule = "char_type"             -> "char"
      [] rule = "wide_char_type"        -> "wchar"
      [] rule = "boolean_type"          -> "boolean"
      [] rule = "octet_type"            -> "octet"

\* the 13 primitive types
BaseTypes == { base_type(rule, KeywordOfRule(rule)) : rule \in PrimitiveRules }

LowerInputs ==
    { member(type_spec, << declarator >>) :
        type_spec \in TypeSpecs, declarator \in Declarators }
    \cup { type_declarator(type_spec, << declarator >>) :
        type_spec \in TypeSpecs, declarator \in Declarators }
    \cup { member(type_spec, << simple_declarator("m") >>) : type_spec \in BaseTypes }
    \cup { type_declarator(type_spec, << simple_declarator("m") >>) :
             type_spec \in BaseTypes }

InitLower ==
    /\ root_module = Context_new
    /\ cur_scope = << >>
    /\ TableIdle
    /\ WalkIdle
    /\ DriverIdle
    /\ given \in LowerInputs
    /\ lowered = None
    /\ shown = None
    /\ reread = None

\* the typedefs a type_declarator added to an empty table, as members
typedefs_of(w) ==
    IF w.res.ok
    THEN Ok([i \in 1..Len(w.root.types) |->
                IdlStructMember(w.root.types[i].key,
                                w.root.types[i].value.type_spec)])
    ELSE Err(w.res.err.cause)

\* read_struct_member on a member pair
LowerMember ==
    /\ given.rule = "member"
    /\ lowered = None
    /\ lowered' = Some(read_struct_member(given))
    /\ UNCHANGED <<ctxVars, tableVars, walkVars, driverVars, runVars, given, shown, reread>>

\* the type_declarator arm of process on a typedef
LowerTypedef ==
    /\ given.rule = "type_declarator"
    /\ lowered = None
    /\ lowered' = Some(typedefs_of(
                      process(Context_new, << >>, << >>, given)))
    /\ UNCHANGED <<ctxVars, tableVars, walkVars, driverVars, runVars, given, shown, reread>>

\* the to_string() of the type of each lowered declarator (what the struct
\* and typedef contexts of IdlTypeDcl::render hold)
Display ==
    /\ is_some(lowered)
    /\ lowered.val.ok
    /\ shown = None
    /\ shown' = Some([i \in 1..Len(lowered.val.val) |->
                        IF IdlTypeSpec_fmt_panics(lowered.val.val[i].type_spec)
                        THEN "panic"
                        ELSE IdlTypeSpec_fmt(lowered.val.val[i].type_spec)])
    /\ UNCHANGED <<ctxVars, tableVars, walkVars, driverVars, runVars, given, lowered, reread>>

NextLower == LowerMember \/ LowerTypedef \/ Display

SpecLower == InitLower /\ [][NextLower]_vars

-----------------------------------------------------------------------------
(* Bounds, scoped names and arrays of the lowered types                    *)

\* what LowerMember or LowerTypedef gives for a pair
lower_of(pair) ==
    IF pair.rule = "member"
    THEN read_struct_member(pair)
    ELSE typedefs_of(process(Context_new, << >>, << >>, pair))

\* the pair without the bound of any sequence (and, when strings is TRUE,
\* of any string or wide string) in it
RECURSIVE unbounded(_, _)
unbounded(pair, strings) ==
    CASE pair.rule = "sequence_type" /\ pair.inner # << >> ->
            Pair(pair.rule, pair.str, << unbounded(pair.inner[1], strings) >>)
      [] pair.rule \in {"string_type", "wide_string_type"} /\ strings ->
            Pair(pair.rule, pair.str, << >>)
      [] OTHER ->
            Pair(pair.rule, pair.str,
                 [i \in 1..Len(pair.inner) |-> unbounded(pair.inner[i], strings)])

\* whether the pair holds a sequence, or a string or wide string, with a bound
RECURSIVE has_bound(_, _)
has_bound(pair, rules) ==
    \/ /\ pair.rule \in rules
       /\ Len(pair.inner) >= (IF pair.rule = "sequence_type" THEN 2 ELSE 1)
    \/ \E i \in 1..Len(pair.inner) : has_bound(pair.inner[i], rules)

\* the type and every type inside it
RECURSIVE type_terms(_)
type_terms(t) ==
    {t} \cup (IF t.tag \in {"SequenceType", "ArrayType"}
              THEN type_terms(t.typ)
              ELSE {})

\* the Display texts of the types of lowered declarators
displayed(members) ==
    [i \in 1..Len(members) |-> IdlTypeSpec_fmt(members[i].type_spec)]

\* C7: when a member or typedef lowers, (a) every string or wide string type
\* in it, bounded or not, displays as "String", (b) what it lowers to is what
\* the same text without its sequence bounds lowers to, and (c) it displays
\* as the same text without any bound displays.
C7_BoundDiscarded ==
    (is_some(lowered) /\ lowered.val.ok) =>
        /\ \A i \in 1..Len(lowered.val.val) :
              \A t \in type_terms(lowered.val.val[i].type_spec) :
                  t.tag \in {"StringType", "WideStringType"} =>
                      IdlTypeSpec_fmt(t) = "String"
        /\ lowered.val = lower_of(unbounded(given, FALSE))
        /\ is_some(shown) =>
              shown.val = displayed(lower_of(unbounded(given, TRUE)).val)

\* C7 witness: a sequence with a bound whose elements are strings with a
\* bound has been lowered and displayed
C7_Witness ==
    /\ is_some(shown)
    /\ has_bound(given, {"sequence_type"})
    /\ has_bound(given, {"string_type", "wide_string_type"})
    /\ \E i \in 1..Len(lowered.val.val) :
          \E t \in type_terms(lowered.val.val[i].type_spec) :
              t.tag \in {"StringType", "WideStringType"} /\ is_some(t.bound)

\* [[[T;a];b];c]: T with one pair of brackets for each dimension, the first
\* dimension innermost
RECURSIVE bracketed(_, _)
bracketed(elem, dims) ==
    IF dims = << >>
    THEN elem
    ELSE "[" \o bracketed(elem, SubSeq(dims, 1, Len(dims) - 1))
             \o ";" \o IdlValueExpr_fmt(dims[Len(dims)]) \o "]"

C9_CratePaths ==
    is_some(shown) =>
        /\ given = type_declarator(
                       sequence_type(scoped_type(<<"A", "Foo">>, FALSE), << >>),
                       << simple_declarator("m") >>)
              => shown.val = << "Vec<crate::A::Foo>" >>
        /\ given = type_declarator(scoped_type(<<"A", "Foo">>, FALSE),
                       << array_declarator("m",
                              << name_expr(<<"A", "length">>, FALSE) >>) >>)
              => shown.val = << "[crate::A::Foo;crate::A::length as usize]" >>

-----------------------------------------------------------------------------
(* Render order                                                            *)

\* the path of every module the text opens, in the order the walk comes to
\* them (once for each time it is opened)
RECURSIVE source_modules(_, _, _)
source_modules(loader, pairs, scope) ==
    IF pairs = << >>
    THEN << >>
    ELSE (CASE Head(pairs).rule = "module_dcl" ->
                 << Append(scope, Head(pairs).inner[1].str) >>
                 \o source_modules(loader, Tail(Head(pairs).inner),
                                   Append(scope, Head(pairs).inner[1].str))
            [] Head(pairs).rule = "include_directive" ->
                 IF readable(loader, Head(pairs).inner[1].str)
                 THEN source_modules(loader,
                          pairs_of(loader, Head(pairs).inner[1].str), scope)
                 ELSE << >>
            [] Head(pairs).rule \in {"definition", "specification"} ->
                 source_modules(loader, Head(pairs).inner, scope)
            [] OTHER -> << >>)
         \o source_modules(loader, Tail(pairs), scope)

\* the sequence without the repetitions of its elements
firsts(seq) ==
    LET idx == {i \in 1..Len(seq) : \A j \in 1..(i - 1) : seq[j] # seq[i]}
        nth(k) == CHOOSE i \in idx : Cardinality({j \in idx : j <= i}) = k
    IN  [k \in 1..Cardinality(idx) |-> seq[nth(k)]]

\* the names, in the order of the text, of the chunks of the given templates
names_in(text, tmpls) ==
    LET picked == SelectSeq(text, LAMBDA c : c.template \in tmpls)
    IN  [i \in 1..Len(picked) |-> name_of(picked[i])]

\* the identifiers recorded in a map of the module at `scope`, in the order
\* of their first declaration in the source
recorded_ids(scope, map) ==
    LET picked == SelectSeq(recorded, LAMBDA d : d.scope = scope /\ d.map = map)
    IN  firsts([i \in 1..Len(picked) |-> picked[i].id])

\* the names of the modules opened directly in the module at `scope`, in the
\* order they are first opened in the source
opened_in(scope) ==
    LET picked == SelectSeq(firsts(source_modules(files, RootPairs, << >>)),
                      LAMBDA s : SubSeq(s, 1, Len(s) - 1) = scope)
    IN  [i \in 1..Len(picked) |-> picked[i][Len(picked[i])]]

\* 1 for a type chunk, 2 for a module block, 3 for a constant chunk
rank_of(chunk) ==
    CASE chunk.template \in TypeTemplates  -> 1
      [] chunk.template = "module.j2"      -> 2
      [] chunk.template \in ConstTemplates -> 3

\* the chunks of the text that are not literal text
rendered_chunks(text) == SelectSeq(text, LAMBDA c : c.template # "")

\* C11: when the text is rendered, the body of every module (the root's is
\* the whole text, a named module's is what its module.j2 block holds) has
\* its type chunks first, then its module blocks, then its constant chunks;
\* the types are those recorded for the module in the order of their first
\* declaration, the blocks are those of the modules opened in it in the
\* order they are first opened, the constants likewise; the root's body is
\* not held in a module.j2 block and every other module's is, in one block
\* of its own name.
C11_RenderOrder ==
    pc = "rendered" =>
        \A scope \in {<< >>} \cup Range(source_modules(files, RootPairs, << >>)) :
            LET body == chunks_at(root_module_text, scope)
                dcls == rendered_chunks(body)
            IN  /\ \A i, j \in 1..Len(dcls) :
                      i < j => rank_of(dcls[i]) <= rank_of(dcls[j])
                /\ names_in(body, TypeTemplates) = recorded_ids(scope, "types")
                /\ names_in(body, {"module.j2"}) = opened_in(scope)
                /\ names_in(body, ConstTemplates) = recorded_ids(scope, "constants")
                /\ scope # << >> =>
                      Len(chunks_named(
                              chunks_at(root_module_text,
                                        SubSeq(scope, 1, Len(scope) - 1)),
                              {"module.j2"}, scope[Len(scope)])) = 1

\* C11 witness: a text that declares a constant, then opens a module, then
\* declares a type is rendered with the type first and the constant last
C11_Witness ==
    /\ pc = "rendered"
    /\ Len(Source) >= 2
    /\ Source[1].scope = << >> /\ Source[1].map = "constants"
    /\ Source[Len(Source)].scope = << >> /\ Source[Len(Source)].map = "types"
    /\ source_modules(files, RootPairs, << >>) # << >>
    /\ LET dcls == rendered_chunks(root_module_text)
       IN  /\ Len(dcls) = 3
           /\ rank_of(dcls[1]) = 1 /\ rank_of(dcls[2]) = 2 /\ rank_of(dcls[3]) = 3

-----------------------------------------------------------------------------
(* Import emission                                                         *)

\* the chunks of literal text of a body that hold a use line
import_chunks(body) ==
    SelectSeq(body, LAMBDA c : c.template = "" /\ c.text # "\n")

\* the Vec import and the serde import, as render writes them at an indent
two_imports(indent) ==
    << Text(use_line(IMPORT_VEC, indent)), Text(use_line(IMPORT_SERDE, indent)) >>

\* C12 (as claimed): when the text is rendered, the body of every module
\* block, an empty one included, starts with the Vec import and the serde
\* import and holds no other import, and the body of the root holds no
\* import at all.
C12_ImportEmission ==
    pc = "rendered" =>
        /\ \A b \in Range(placed_blocks(root_module_text, << >>)) :
              LET body == b.chunk.module_information
              IN  /\ Len(body) >= 2
                  /\ SubSeq(body, 1, 2)
                        = two_imports((Len(b.path) + 1) * INDENTION)
                  /\ import_chunks(body) = SubSeq(body, 1, 2)
        /\ import_chunks(root_module_text) = << >>

-----------------------------------------------------------------------------
(* SpecExpr: a constant expression, drawn from a bounded set of texts, is  *)
(* lowered by read_const_expr, displayed, and the displayed text is parsed *)
(* and lowered again.  The str of a pair is its source text, written       *)
(* without white space.                                                    *)

\* the operator each binary production is written with
OpLexeme(rule) ==
    CASE rule = "or_expr"     -> "|"
      [] rule = "xor_expr"    -> "^"
      [] rule = "and_expr"    -> "&"
      [] rule = "lshift_expr" -> "<<"
      [] rule = "rshift_expr" -> ">>"
      [] rule = "add_expr"    -> "+"
      [] rule = "sub_expr"    -> "-"
      [] rule = "mul_expr"    -> "*"
      [] rule = "div_expr"    -> "/"
      [] rule = "mod_expr"    -> "%"

\* primary_expr > literal > a literal production
primary_literal(lit) ==
    Pair("primary_expr", lit.str, << Pair("literal", lit.str, << lit >>) >>)

\* primary_expr > scoped_name
primary_name(ids, leading) ==
    Pair("primary_expr", scoped_name(ids, leading).str,
         << scoped_name(ids, leading) >>)

\* primary_expr = "(" ~ const_expr ~ ")"
braced(expr) == Pair("primary_expr", "(" \o expr.str \o ")", << expr >>)

\* unary_expr = primary_expr
unary_of(prim) == Pair("unary_expr", prim.str, << prim >>)

\* unary_expr = unary_operator ~ primary_expr
signed(op, prim) ==
    Pair("unary_expr", op \o prim.str,
         << Pair("unary_operator", op, << >>), prim >>)

\* const_expr = unary_expr
const_of(unary) == Pair("const_expr", unary.str, << unary >>)

\* const_expr = unary_expr ~ (a binary production holding the right operand)
binary(unary, rule, right) ==
    Pair("const_expr", unary.str \o OpLexeme(rule) \o right.str,
         << unary, Pair(rule, OpLexeme(rule) \o right.str, << right >>) >>)

\* the children of a floating_pt_literal: the parts that are written
float_parts(i, f, e, s) ==
    (IF is_some(i) THEN << Pair("integral_part", i.val, << >>) >> ELSE << >>)
    \o (IF is_some(f) THEN << Pair("fractional_part", f.val, << >>) >> ELSE << >>)
    \o (IF is_some(e) THEN << Pair("exponent", e.val, << >>) >> ELSE << >>)
    \o (IF is_some(s) THEN << Pair("float_suffix", s.val, << >>) >> ELSE << >>)

\* the text of a floating_pt_literal
float_text(i, f, e, s) ==
    (IF is_some(i) THEN i.val ELSE "") \o "."
    \o (IF is_some(f) THEN f.val ELSE "")
    \o (IF is_some(e) THEN "e" \o e.val ELSE "")
    \o (IF is_some(s) THEN s.val ELSE "")

float_literal(i, f, e, s) ==
    Pair("floating_pt_literal", float_text(i, f, e, s), float_parts(i, f, e, s))

\* the literals of the texts: one of each kind, 1.5e3d with every part of a
\* floating-point literal and 1.5 with two of them
Literals ==
    { Pair("decimal_integer_literal", "1", << >>),
      Pair("decimal_integer_literal", "2", << >>),
      Pair("hex_integer_literal", "0xF0", << >>),
      Pair("hex_integer_literal", "0x0F", << >>),
      Pair("octal_integer_literal", "017", << >>),
      Pair("character_literal", "'a'", << >>),
      Pair("wide_character_literal", "L'a'", << >>),
      Pair("string_literal", "\"s\"", << >>),
      Pair("wide_string_literal", "L\"s\"", << >>),
      Pair("boolean_literal", "TRUE", << >>),
      Pair("boolean_literal", "FALSE", << >>),
      float_literal(Some("1"), Some("5"), Some("3"), Some("d")),
      float_literal(Some("1"), Some("5"), None, None) }

\* the scoped names of the texts
Names ==
    { [ids |-> ids, leading |-> leading] :
        ids \in { <<"x">>, <<"A", "length">>, <<"A", "B", "c">>,
                  <<"crate", "x">> },
        leading \in BOOLEAN }

Primaries ==
    { primary_literal(lit) : lit \in Literals }
    \cup { primary_name(n.ids, n.leading) : n \in Names }

UnaryOperators == {"-", "+", "~"}

\* the operands of the binary expressions
Heads ==
    { unary_of(primary_literal(Pair("hex_integer_literal", "0xF0", << >>))),
      unary_of(primary_literal(Pair("decimal_integer_literal", "1", << >>))),
      unary_of(primary_name(<<"A", "length">>, FALSE)),
      signed("-", primary_literal(Pair("decimal_integer_literal", "1", << >>))) }

Rights ==
    { literal_expr("hex_integer_literal", "0x0F"),
      literal_expr("decimal_integer_literal", "2"),
      const_of(unary_of(primary_name(<<"x">>, TRUE))),
      binary(unary_of(primary_literal(
                 Pair("decimal_integer_literal", "2", << >>))),
             "mul_expr", literal_expr("decimal_integer_literal", "1")) }

ExprInputs ==
    { const_of(unary_of(prim)) : prim \in Primaries }
    \cup { const_of(signed(op, prim)) : op \in UnaryOperators, prim \in Primaries }
    \cup { binary(head, rule, right) :
             head \in Heads, rule \in BinaryOpRules, right \in Rights }
    \cup { const_of(unary_of(braced(right))) : right \in Rights }

InitExpr ==
    /\ root_module = Context_new
    /\ cur_scope = << >>
    /\ TableIdle
    /\ WalkIdle
    /\ DriverIdle
    /\ given \in ExprInputs
    /\ lowered = None
    /\ shown = None
    /\ reread = None

\* read_const_expr on the expression
ReadExpr ==
    /\ lowered = None
    /\ lowered' = Some(read_const_expr(given))
    /\ UNCHANGED <<ctxVars, tableVars, walkVars, driverVars, runVars, given, shown, reread>>

\* the to_string() of the lowered expression (what the const context of
\* IdlConstDcl::render holds), or the panic of an unwrap in it
ShowExpr ==
    /\ is_some(lowered)
    /\ lowered.val.ok
    /\ shown = None
    /\ shown' = Some(IF IdlValueExpr_fmt_panics(lowered.val.val)
                     THEN Err(Panic)
                     ELSE Ok(IdlValueExpr_fmt(lowered.val.val)))
    /\ UNCHANGED <<ctxVars, tableVars, walkVars, driverVars, runVars, given, lowered, reread>>

\* the displayed text is parsed (the parse of a text is the pair of that
\* text) and lowered again
Reparse ==
    /\ is_some(shown)
    /\ shown.val.ok
    /\ reread = None
    /\ \E pair \in ExprInputs :
          /\ pair.str = shown.val.val
          /\ reread' = Some(read_const_expr(pair))
    /\ UNCHANGED <<ctxVars, tableVars, walkVars, driverVars, runVars, given, lowered, shown>>

NextExpr == ReadExpr \/ ShowExpr \/ Reparse

SpecExpr == InitExpr /\ [][NextExpr]_vars

-----------------------------------------------------------------------------
(* Scoped names and constant expressions                                   *)

\* whether the expression is nothing but a scoped name
is_name(expr) ==
    /\ Len(expr.inner) = 1
    /\ Len(expr.inner[1].inner) = 1
    /\ expr.inner[1].inner[1].inner # << >>
    /\ expr.inner[1].inner[1].inner[1].rule = "scoped_name"

\* the scoped_name pair of such an expression
name_pair(expr) == expr.inner[1].inner[1].inner[1]

\* whether the text begins with "::"
begins_absolute(text) == Len(text) >= 2 /\ SubSeq(text, 1, 2) = "::"

C15_RoundTrip ==
    (is_some(lowered) /\ lowered.val.ok) =>
        /\ is_some(shown) => shown.val.ok
        /\ is_some(reread) => reread.val = lowered.val

-----------------------------------------------------------------------------
(* SpecUnion: a union, drawn from a bounded set of texts, is recorded by   *)
(* the union_def arm of process and rendered.                              *)

\* the most cases of a union
MaxCases == 2

\* the most labels of a case
MaxLabels == 2

\* case LABEL0:, case 2:, default:
CaseLabels ==
    { case_label(<< name_expr(<<"LABEL0">>, FALSE) >>),
      case_label(<< dec_expr("2") >>),
      case_label(<< >>) }

\* long l, short s
ElementSpecs ==
    { element_spec(long_type, simple_declarator("l")),
      element_spec(short_type, simple_declarator("s")) }

\* the labels of a case: one to MaxLabels labels, none of them twice
LabelLists ==
    { labels \in SeqsUpTo(CaseLabels, MaxLabels) \ { << >> } :
        \A i, j \in 1..Len(labels) : labels[i] = labels[j] => i = j }

Cases ==
    { case(labels, elem) : labels \in LabelLists, elem \in ElementSpecs }

UnionInputs ==
    { union_def("Foo", long_type, cases) :
        cases \in SeqsUpTo(Cases, MaxCases) \ { << >> } }

InitUnion ==
    /\ root_module = Context_new
    /\ cur_scope = << >>
    /\ TableIdle
    /\ WalkIdle
    /\ DriverIdle
    /\ given \in UnionInputs
    /\ lowered = None
    /\ shown = None
    /\ reread = None

\* the type declaration a union_def added to an empty table
union_of(w, id) ==
    IF w.res.ok THEN Ok(get(w.root.types, id)) ELSE w.res

\* the union_def arm of process on the union
LowerUnion ==
    /\ lowered = None
    /\ lowered' = Some(union_of(process(Context_new, << >>, << >>, given),
                                given.inner[1].str))
    /\ UNCHANGED <<ctxVars, tableVars, walkVars, driverVars, runVars, given, shown, reread>>

\* IdlTypeDcl::render of the recorded union
RenderUnion ==
    /\ is_some(lowered)
    /\ lowered.val.ok
    /\ shown = None
    /\ shown' = Some(IdlTypeDcl_render(lowered.val.val, AllTemplates, 0))
    /\ UNCHANGED <<ctxVars, tableVars, walkVars, driverVars, runVars, given, lowered, reread>>

NextUnion == LowerUnion \/ RenderUnion

SpecUnion == InitUnion /\ [][NextUnion]_vars

\* the cases of the union text
cases_of(union) == union.inner[3].inner

\* the case_label pairs of a case of the text, in the order of the text
labels_of(case_pair) ==
    SelectSeq(case_pair.inner, LAMBDA p : p.rule = "case_label")

\* the element_spec of a case of the text
element_of(case_pair) == case_pair.inner[Len(case_pair.inner)]

\* the member the claim gives for a label of a case: the text of the label
\* (the labels of the texts are displayed as they are written) or default,
\* with the declarator and the type of the element of the case
member_of(case_pair, label) ==
    [name         |-> IF label.inner = << >> THEN "default"
                      ELSE label.inner[1].str,
     element_id   |-> element_of(case_pair).inner[2].str,
     element_type |-> IdlTypeSpec_fmt(
                          read_type_spec(element_of(case_pair).inner[1]).val)]

\* C16: the union_members handed to union_switch.j2 are one member for each
\* label of each case, the cases in the order of the text and the labels of
\* a case in the order of the text; a member is named by the displayed label
\* or by default, and holds the identifier and the displayed type of the
\* element of its case.
C16_UnionMembers ==
    (is_some(shown) /\ shown.val.ok) =>
        shown.val.val.union_members
            = concat([i \in 1..Len(cases_of(given)) |->
                  [j \in 1..Len(labels_of(cases_of(given)[i])) |->
                      member_of(cases_of(given)[i],
                                labels_of(cases_of(given)[i])[j])]])

\* C16 witness: case LABEL0: case 2: short s; default: long l; is rendered
\* with s under LABEL0 and under 2, then l under default
C16_Witness ==
    /\ is_some(shown)
    /\ shown.val.ok
    /\ shown.val.val.union_members
          = << [name |-> "LABEL0", element_id |-> "s", element_type |-> "i16"],
               [name |-> "2", element_id |-> "s", element_type |-> "i16"],
               [name |-> "default", element_id |-> "l", element_type |-> "i32"] >>

-----------------------------------------------------------------------------
(* Best-effort walking                                                     *)

\* whether walking the pair on its own returns an error
fails(pair) == ~process(Context_new, << >>, files, pair).res.ok

\* the productions whose arm walks the children and discards their Results
Lenient == {"module_dcl", "definition", "specification"}

\* whether the walk of the root file is over
walked == \/ pc = "walking" /\ root_pairs = << >>
          \/ pc = "rendered"
          \/ pc = "returned" /\ readable(files, idl_file)

\* C17: walking a module or a production process has no arm for returns
\* Ok(()) whatever walking its children returned; and once the text is
\* walked every declaration of it that lowers has an entry in the map of its
\* module, whatever failed before it, and once the text is rendered it has a
\* chunk in the block of its module.
C17_BestEffort ==
    /\ walked =>
          /\ \A p \in Range(all_pairs(files, RootPairs)) :
                p.rule \in Lenient => ~fails(p)
          /\ \A d \in Range(Source) :
                is_some(d.dcl) =>
                    contains_key(MapAt(root_module, d.scope, d.map), d.id)
    /\ pc = "rendered" =>
          \A d \in Range(Source) :
              is_some(d.dcl) =>
                  chunks_named(chunks_at(root_module_text, d.scope),
                               TemplatesOfMap(d.map), d.id) # << >>

\* C17 witness: in a module body an #include of a missing file fails and the
\* struct after it is rendered in the block of the module; and a child of
\* the specification fails and a declaration after it is rendered
C17_Witness ==
    /\ pc = "rendered"
    /\ \E p \in Range(all_pairs(files, RootPairs)) :
          /\ p.rule = "module_dcl"
          /\ \E i, j \in 2..Len(p.inner) :
                /\ i < j
                /\ fails(p.inner[i])
                /\ source_dcls(files, << p.inner[j] >>, << >>) # << >>
          /\ chunks_named(chunks_at(root_module_text, << p.inner[1].str >>),
                          TypeTemplates, "x") # << >>
    /\ \E i, j \in 1..Len(RootPairs[1].inner) :
          /\ i < j
          /\ fails(RootPairs[1].inner[i])
          /\ \E d \in Range(source_dcls(files, << RootPairs[1].inner[j] >>, << >>)) :
                /\ is_some(d.dcl)
                /\ chunks_named(chunks_at(root_module_text, d.scope),
                                TemplatesOfMap(d.map), d.id) # << >>

-----------------------------------------------------------------------------
(* Includes in place                                                       *)

\* C18: once the text is walked, each map of each module holds its
\* identifiers in the order of their first declaration in the text read with
\* every #include replaced, where it stands, by the text of the included
\* file: the declarations of a file included while the scope is S are in the
\* maps of module S, after those written before the #include and before
\* those written after it.
C18_IncludeInPlace ==
    walked =>
        \A scope \in {<< >>} \cup Range(source_modules(files, RootPairs, << >>)) :
            \A map \in {"types", "constants"} :
                keys(MapAt(root_module, scope, map)) = recorded_ids(scope, map)

\* C18 witness: struct x, then #include "other.idl" (which includes
\* inner.idl, declaring z, and then declares w), then a module A that
\* includes inner.idl: z is recorded in the root after x and before w, and
\* the x and z of inner.idl are recorded in module A
C18_Witness ==
    /\ walked
    /\ RootPairs[1].inner
          = << definition(StructX), include_directive("other.idl"),
               definition(module_dcl("A", << include_directive("inner.idl") >>)) >>
    /\ keys(root_module.types) = << "x", "z", "w" >>
    /\ get(root_module.types, "x").members[1].id = "a"
    /\ keys(MapAt(root_module, << "A" >>, "types")) = << "x", "z" >>
    /\ get(MapAt(root_module, << "A" >>, "types"), "x").members[1].id = "b"

-----------------------------------------------------------------------------
(* The module tree                                                         *)

\* every module stored below `module` is stored under its own name, and no
\* name is stored twice in one modules map
RECURSIVE named_by_key(_)
named_by_key(module) ==
    /\ \A i, j \in 1..Len(module.modules) :
          module.modules[i].key = module.modules[j].key => i = j
    /\ \A i \in 1..Len(module.modules) :
          /\ module.modules[i].value.id = Some(module.modules[i].key)
          /\ named_by_key(module.modules[i].value)

\* the paths of the modules stored below `module`, each after its parent
RECURSIVE module_paths(_, _)
module_paths(module, scope) ==
    LET below[i \in 0..Len(module.modules)] ==
            IF i = 0 THEN << >>
            ELSE below[i - 1]
                 \o << Append(scope, module.modules[i].key) >>
                 \o module_paths(module.modules[i].value,
                                 Append(scope, module.modules[i].key))
    IN  below[Len(module.modules)]

\* C19: in every state the table is in under any sequence of lookup_module,
\* add_type_dcl and add_const_dcl calls (the only writes the walk makes to
\* it), the root module has no id and every module stored in the table has
\* the id Some(key) for the key it is stored under in the modules map of its
\* parent, each key once per map: the table is a tree rooted at the root
\* module and the root is the only module without an id.
C19_ModuleTree ==
    /\ root_module.id = None
    /\ named_by_key(root_module)
    /\ \A s \in Range(module_paths(root_module, << >>)) :
          /\ has_module(root_module, s)
          /\ module_at(root_module, s).id = Some(s[Len(s)])

\* C19 witness: a declaration was added to module A and then one to A::B,
\* which the second call created inside A
C19_Witness ==
    /\ last_call.op = "add_const_dcl"
    /\ last_call.scope = <<"A", "B">>
    /\ module_paths(root_module, << >>) = << <<"A">>, <<"A", "B">> >>
    /\ module_at(root_module, <<"A">>).id = Some("A")
    /\ module_at(root_module, <<"A", "B">>).id = Some("B")
    /\ module_at(root_module, <<"A">>).types # << >>
    /\ module_at(root_module, <<"A", "B">>).constants # << >>

-----------------------------------------------------------------------------
(* Rendering reads the table                                               *)

\* the step is one of the walk
walk_step == pc = "walking" /\ root_pairs # << >>

-----------------------------------------------------------------------------
(* lookup_module                                                           *)

\* the non-empty prefixes of a path
prefixes(s) == { SubSeq(s, 1, k) : k \in 1..Len(s) }

\* the paths of all modules of the table, the root's among them
all_paths(root) == { << >> } \cup Range(module_paths(root, << >>))

LookupStep ==
    last_call'.op = "lookup_module" /\ calls' = calls + 1 =>
        LET s == last_call'.scope
        IN  \* the module at every prefix of the path exists afterwards, and no
            \* other module was created
            /\ all_paths(root_module') = all_paths(root_module) \cup prefixes(s)
            \* the modules that existed keep their id, types and constants
            \* and every sub-module at its position; off the path, or when
            \* nothing was missing, they are what they were
            /\ \A p \in all_paths(root_module) :
                  /\ module_at(root_module', p).id = module_at(root_module, p).id
                  /\ module_at(root_module', p).types = module_at(root_module, p).types
                  /\ module_at(root_module', p).constants
                        = module_at(root_module, p).constants
                  /\ KeepsEntries(keys(module_at(root_module, p).modules),
                                  keys(module_at(root_module', p).modules))
                  /\ (p \notin prefixes(s) \cup { << >> } \/ has_module(root_module, s))
                        => module_at(root_module', p) = module_at(root_module, p)
            \* a module that was missing is created empty, named by its path
            \* component, holding only the next module of the path
            /\ \A p \in prefixes(s) \ all_paths(root_module) :
                  /\ module_at(root_module', p).id = Some(p[Len(p)])
                  /\ module_at(root_module', p).types = << >>
                  /\ module_at(root_module', p).constants = << >>
                  /\ module_at(root_module', p).uses = << >>
                  /\ keys(module_at(root_module', p).modules)
                        = IF p = s THEN << >> ELSE << s[Len(p) + 1] >>
            \* a second call with the same scope changes nothing
            /\ lookup_module(root_module', s) = root_module'

\* C21: under any sequence of calls on the table, lookup_module(scope) makes
\* the module at every prefix of scope exist, creating each missing one empty
\* with the id of its path component; the modules that existed keep their
\* types, constants and sub-modules (those off the path are untouched), and
\* calling it again with the same scope changes nothing.
C21_LookupModule == [][LookupStep]_vars

\* C21 witness: lookup_module(A::B) was called on a table where module A
\* held a type and B was missing: B is there, empty, and A kept its type
C21_Witness ==
    /\ last_call.op = "lookup_module"
    /\ last_call.scope = << "A", "B" >>
    /\ calls = 2
    /\ module_at(root_module, << "A" >>).types # << >>
    /\ module_at(root_module, << "A", "B" >>) = IdlModule_new(Some("B"))

-----------------------------------------------------------------------------
(* The scope stack                                                         *)

\* C22: process returns with the scope it was entered with, for every pair
\* of the text and of the files it includes, entered under any scope,
\* whether it returns Ok or an error; so the scope of the walk is empty
\* between the pairs of the root file, and once the text is walked every
\* declaration that lowers, those written after a module among them, is
\* recorded in the module it is written in.
C22_ScopeBalance ==
    /\ cur_scope = << >>
    /\ readable(files, idl_file) =>
          \A p \in Range(all_pairs(files, RootPairs)) : \A scope \in TableScopes :
              process(Context_new, scope, files, p).scope = scope
    /\ walked =>
          \A d \in Range(Source) : is_some(d.dcl) =>
              contains_key(MapAt(root_module, d.scope, d.map), d.id)

\* C22 witness: module A, whose first body item fails and whose second one
\* declares a struct, is followed by a constant: the walk is done with an
\* empty scope, the struct is in A and the constant is in the root
C22_Witness ==
    /\ walked
    /\ RootPairs[1].inner
          = << definition(module_dcl("A", << include_directive("missing.idl"),
                                             definition(StructX) >>)),
               definition(ConstX) >>
    /\ ~process(Context_new, << "A" >>, files, include_directive("missing.idl")).res.ok
    /\ cur_scope = << >>
    /\ keys(MapAt(root_module, << "A" >>, "types")) = << "x" >>
    /\ MapAt(root_module, << "A" >>, "constants") = << >>
    /\ keys(root_module.constants) = << "x" >>

-----------------------------------------------------------------------------
(* SpecDcl: one declaration, drawn from a bounded set of texts, is walked  *)
(* by process under a scope, on a table that is empty or holds earlier     *)
(* declarations.                                                           *)

\* the most member lines of a struct
MaxLines == 2

\* the most declarators of a member line
MaxDeclarators == 2

\* the most declarators of a typedef
MaxTypedefDeclarators == 3

\* long, A::Foo, and a string whose bound read_const_expr fails on
DclTypes ==
    { long_type, scoped_type(<<"A", "Foo">>, FALSE),
      string_type("string_type", << unreadable_expr >>) }

\* a, b, c[2][A::length], and e with a size read_const_expr fails on
DclDeclarators ==
    { simple_declarator("a"), simple_declarator("b"),
      array_declarator("c", << dec_expr("2"), name_expr(<<"A", "length">>, FALSE) >>),
      array_declarator("e", << unreadable_expr >>) }

DeclaratorLists == SeqsUpTo(DclDeclarators, MaxDeclarators) \ { << >> }

MemberLines ==
    { member(type_spec, declarators) :
        type_spec \in DclTypes, declarators \in DeclaratorLists }

StructInputs == { struct_def("s", lines) : lines \in SeqsUpTo(MemberLines, MaxLines) }

TypedefInputs ==
    { type_declarator(type_spec, declarators) :
        type_spec \in DclTypes,
        declarators \in SeqsUpTo(DclDeclarators, MaxTypedefDeclarators) \ { << >> } }

long_l == element_spec(long_type, simple_declarator("l"))

case_0 == case(<< case_label(<< dec_expr("0") >>) >>, long_l)

\* unions, enums and constants every part of which lowers
LoweringDcls ==
    { union_def("u", long_type, << case_0 >>),
      union_def("u", long_type,
          << case_0, case(<< case_label(<< dec_expr("1") >>), case_label(<< >>) >>,
                          long_l) >>),
      enum_dcl("n", << "V0", "V1" >>),
      const_dcl(long_type, "k", dec_expr("1")) }

\* unions and constants with a part that does not lower: a label, the
\* label of a later case, the type or the declarator of an element, the
\* type or the value of a constant
FailingDcls ==
    { union_def("u", long_type,
          << case(<< case_label(<< unreadable_expr >>) >>, long_l) >>),
      union_def("u", long_type,
          << case_0, case(<< case_label(<< unreadable_expr >>) >>, long_l) >>),
      union_def("u", long_type,
          << case_0,
             case(<< case_label(<< dec_expr("1") >>) >>,
                  element_spec(string_type("string_type", << unreadable_expr >>),
                               simple_declarator("l"))) >>),
      union_def("u", long_type,
          << case(<< case_label(<< dec_expr("0") >>) >>,
                  element_spec(long_type,
                               array_declarator("e", << unreadable_expr >>))) >>),
      const_dcl(string_type("string_type", << unreadable_expr >>), "k",
                dec_expr("1")),
      const_dcl(long_type, "k", unreadable_expr) }

DclInputs == StructInputs \cup TypedefInputs \cup LoweringDcls \cup FailingDcls

\* a table holding a typedef a in the root and one in module A
EarlierTable ==
    add_type_dcl(
        add_type_dcl(Context_new, << >>, "a", TypeDcl("a", Primitive("I16Type"))),
        << "A" >>, "a", TypeDcl("a", Primitive("I16Type")))

InitDcl ==
    /\ root_module \in { Context_new, EarlierTable }
    /\ cur_scope \in { << >>, << "A" >> }
    /\ TableIdle
    /\ WalkIdle
    /\ DriverIdle
    /\ given \in DclInputs
    /\ lowered = None
    /\ shown = None
    /\ reread = None

\* self.process(&mut scope, loader, pair) on the declaration
ProcessDcl ==
    /\ lowered = None
    /\ LET w == process(root_module, cur_scope, << >>, given)
       IN  /\ root_module' = w.root
           /\ cur_scope' = w.scope
           /\ lowered' = Some(w.res)
    /\ UNCHANGED <<tableVars, walkVars, driverVars, runVars, given, shown, reread>>

NextDcl == ProcessDcl

SpecDcl == InitDcl /\ [][NextDcl]_vars

-----------------------------------------------------------------------------
(* Struct lowering                                                         *)

\* the const_expr of the k-th size of an array declarator
size_expr(declarator, k) == declarator.inner[1].inner[k + 1].inner[1]

sizes_of(declarator) ==
    [k \in 1..(Len(declarator.inner[1].inner) - 1) |->
        read_const_expr(size_expr(declarator, k))]

is_array(declarator) == declarator.inner[1].rule = "array_declarator"

\* the identifier of a declarator
declarator_id(declarator) == declarator.inner[1].inner[1].str

\* the declarator lowers: every size of an array declarator does
declarator_lowers(declarator) ==
    is_array(declarator) => \A k \in DOMAIN sizes_of(declarator) : sizes_of(declarator)[k].ok

\* the type a declarator gives the lowered type T
declared_type(declarator, T) ==
    IF is_array(declarator)
    THEN ArrayType(T, [k \in DOMAIN sizes_of(declarator) |-> sizes_of(declarator)[k].val])
    ELSE T

\* the member line lowers: its type does and each of its declarators does
line_lowers(line) ==
    /\ read_type_spec(line.inner[1]).ok
    /\ \A i \in 1..Len(line.inner[2].inner) : declarator_lowers(line.inner[2].inner[i])

\* one member per declarator of the line, in the order written
line_members(line) ==
    [i \in 1..Len(line.inner[2].inner) |->
        IdlStructMember(declarator_id(line.inner[2].inner[i]),
                        declared_type(line.inner[2].inner[i],
                                      read_type_spec(line.inner[1]).val))]

\* the members of the lines, line after line
RECURSIVE lines_members(_)
lines_members(lines) ==
    IF lines = << >> THEN << >>
    ELSE line_members(Head(lines)) \o lines_members(Tail(lines))

StructStep ==
    (given.rule = "struct_def" /\ lowered = None /\ lowered' # None
        /\ \A i \in 1..Len(Tail(given.inner)) : line_lowers(Tail(given.inner)[i])) =>
        /\ lowered'.val = Ok(Unit)
        /\ cur_scope' = cur_scope
        /\ MapAt(root_module', cur_scope, "types")
              = Append(MapAt(root_module, cur_scope, "types"),
                       [key   |-> given.inner[1].str,
                        value |-> StructDcl(given.inner[1].str,
                                            lines_members(Tail(given.inner)))])

\* C23: a struct whose member lines all lower is recorded as
\* StructDcl(id, members) with one member per declarator, in the order
\* written across the lines; the member of a simple declarator has the type
\* of its line and the member of an array declarator has
\* ArrayType(type of the line, sizes in the order written).
C23_StructLowering == [][StructStep]_vars

\* C23 witness: struct s { long a, c[2][A::length]; A::Foo b; } was walked
C23_Witness ==
    /\ given = struct_def("s",
                  << member(long_type,
                         << simple_declarator("a"),
                            array_declarator("c",
                                << dec_expr("2"),
                                   name_expr(<<"A", "length">>, FALSE) >>) >>),
                     member(scoped_type(<<"A", "Foo">>, FALSE),
                         << simple_declarator("b") >>) >>)
    /\ lowered = Some(Ok(Unit))
    /\ contains_key(MapAt(root_module, cur_scope, "types"), "s")
    /\ Len(get(MapAt(root_module, cur_scope, "types"), "s").members) = 3
    /\ get(MapAt(root_module, cur_scope, "types"), "s").members[1]
          = IdlStructMember("a", Primitive("I32Type"))
    /\ get(MapAt(root_module, cur_scope, "types"), "s").members[2].id = "c"
    /\ get(MapAt(root_module, cur_scope, "types"), "s").members[2].type_spec.tag
          = "ArrayType"
    /\ get(MapAt(root_module, cur_scope, "types"), "s").members[2].type_spec.typ
          = Primitive("I32Type")
    /\ Len(get(MapAt(root_module, cur_scope, "types"), "s").members[2].type_spec.dims)
          = 2
    /\ get(MapAt(root_module, cur_scope, "types"), "s").members[2].type_spec.dims[1]
          = DecLiteral("2")
    /\ get(MapAt(root_module, cur_scope, "types"), "s").members[3].id = "b"

-----------------------------------------------------------------------------
(* Typedef lowering                                                        *)

\* the map after the declarators, each in turn: a declarator that lowers and
\* whose id is not in the map yet adds TypeDcl(id, its type) at the end
RECURSIVE with_typedefs(_, _, _)
with_typedefs(map, declarators, T) ==
    IF declarators = << >>
    THEN map
    ELSE with_typedefs(
             IF /\ declarator_lowers(Head(declarators))
                /\ ~contains_key(map, declarator_id(Head(declarators)))
             THEN Append(map,
                      [key   |-> declarator_id(Head(declarators)),
                       value |-> TypeDcl(declarator_id(Head(declarators)),
                                         declared_type(Head(declarators), T))])
             ELSE map,
             Tail(declarators), T)

TypedefStep ==
    (given.rule = "type_declarator" /\ lowered = None /\ lowered' # None
        /\ read_type_spec(given.inner[1]).ok) =>
        /\ lowered'.val = Ok(Unit)
        /\ cur_scope' = cur_scope
        /\ MapAt(root_module', cur_scope, "types")
              = with_typedefs(MapAt(root_module, cur_scope, "types"),
                              given.inner[2].inner,
                              read_type_spec(given.inner[1]).val)
        /\ MapAt(root_module', cur_scope, "constants")
              = MapAt(root_module, cur_scope, "constants")
        /\ \A s \in TableScopes \ { cur_scope } :
              has_module(root_module, s) =>
                  module_at(root_module', s).types = module_at(root_module, s).types

\* C24: a typedef whose type T lowers records, for each declarator in the
\* order written, TypeDcl(id, T), or TypeDcl(id, ArrayType(T, sizes)) for an
\* array declarator, under the key id in the types map of the current scope
\* unless that key is taken; a declarator that does not lower records
\* nothing and the declarators after it are recorded all the same.
C24_TypedefLowering == [][TypedefStep]_vars

\* C24 witness: typedef long e[1.5d], a, b was walked at the root of a table
\* holding a typedef short a: e is skipped, a is the earlier one, b is added
C24_Witness ==
    /\ given = type_declarator(long_type,
                  << array_declarator("e", << unreadable_expr >>),
                     simple_declarator("a"), simple_declarator("b") >>)
    /\ cur_scope = << >>
    /\ lowered = Some(Ok(Unit))
    /\ root_module.types
          = << [key |-> "a", value |-> TypeDcl("a", Primitive("I16Type"))],
               [key |-> "b", value |-> TypeDcl("b", Primitive("I32Type"))] >>

-----------------------------------------------------------------------------
(* Primitive types                                                         *)

\* the atom and the target token of each primitive keyword
ExpectedPrimitive ==
    { << "float", "F32Type", "f32" >>, << "double", "F64Type", "f64" >>,
      << "long double", "F128Type", "f128" >>,
      << "short", "I16Type", "i16" >>, << "long", "I32Type", "i32" >>,
      << "long long", "I64Type", "i64" >>,
      << "unsigned short", "U16Type", "u16" >>,
      << "unsigned long", "U32Type", "u32" >>,
      << "unsigned long long", "U64Type", "u64" >>,
      << "char", "CharType", "char" >>, << "wchar", "WideCharType", "char" >>,
      << "boolean", "BooleanType", "bool" >>, << "octet", "OctetType", "u8" >> }

\* the given text is a member or a typedef `K m` of a primitive type K
of_base_type ==
    /\ given # << >>
    /\ given.inner[1] \in BaseTypes
    /\ ~is_array(given.inner[2].inner[1])

\* C25: a member or typedef `K m` of a primitive keyword K lowers to the
\* atom of K, the 13 keywords lower to 13 different atoms, and the atom is
\* displayed as the target token of K.
C25_Primitives ==
    /\ Cardinality({ read_type_spec(t) : t \in BaseTypes }) = 13
    /\ \A t \in BaseTypes : read_type_spec(t).ok
    /\ (of_base_type /\ is_some(lowered)) =>
          \E e \in ExpectedPrimitive :
              /\ e[1] = given.inner[1].str
              /\ lowered.val = Ok(<< IdlStructMember("m", Primitive(e[2])) >>)
              /\ is_some(shown) => shown.val = << e[3] >>

\* C25 witness: typedef wchar m was lowered to WideCharType and displayed
\* as char
C25_Witness ==
    /\ given = type_declarator(base_type("wide_char_type", "wchar"),
                               << simple_declarator("m") >>)
    /\ lowered = Some(Ok(<< IdlStructMember("m", Primitive("WideCharType")) >>))
    /\ shown = Some(<< "char" >>)

-----------------------------------------------------------------------------
(* Floating-point literals without all four parts                          *)

\* the text holds a floating-point literal that lacks one of its four parts
RECURSIVE partial_float(_)
partial_float(pair) ==
    \/ pair.rule = "floating_pt_literal" /\ Len(pair.inner) < 4
    \/ \E i \in 1..Len(pair.inner) : partial_float(pair.inner[i])

\* C26 (as claimed): displaying an expression with a floating-point literal
\* that lacks its exponent, its suffix or any other part completes and gives
\* a text.
C26_FloatRenders ==
    (partial_float(given) /\ is_some(shown)) => shown.val.ok

-----------------------------------------------------------------------------
(* SpecWalk: the walk of the root file, one call of process at a time.     *)
(* frames holds the loops under way, the innermost last: the driver's loop *)
(* over the pairs of the root file, and for each call of process that has  *)
(* not returned, its loop over the pairs it walks.                         *)

\* the most definitions in the root file of a walk taken call by call
MaxWalkDefs == 2

\* a loop over `rest`; on_err tells what it does with the error of a call
\* ("discard" for let _ = ..., "return" for ...?), pops whether the call it
\* belongs to pops the scope when the loop is done
Frame(rest, on_err, pops) == [rest |-> rest, on_err |-> on_err, pops |-> pops]

\* the rules process lowers without a call of process on a child
DclRules == {"struct_def", "union_def", "type_declarator", "enum_dcl", "const_dcl"}

\* the loops when the innermost has taken its next pair
advance(frs) == [frs EXCEPT ![Len(frs)].rest = Tail(@)]

\* the loops when a call returned Err to the innermost: a loop that discards
\* goes on, a loop that returns the error ends and its call returns Err too
RECURSIVE unwind(_)
unwind(frs) ==
    IF frs = << >> THEN << >>
    ELSE IF frs[Len(frs)].on_err = "discard" THEN frs
    ELSE unwind(SubSeq(frs, 1, Len(frs) - 1))

returned_to(frs, res) == IF res.ok THEN frs ELSE unwind(frs)

\* (mutant) an include guard: a file that was loaded before is not walked
include_call_once(frs, seen, fname, idl) ==
    IF \E i \in 1..Len(seen) : seen[i] = fname
    THEN [frames |-> frs, loaded |-> seen]
    ELSE [frames |-> Append(frs, Frame(idl, "return", FALSE)),
          loaded |-> Append(seen, fname)]

\* for p in idl { self.process(scope, loader, p)?; } on the pairs of the
\* file that was loaded and parsed
include_call(frs, seen, fname, idl) ==
    [frames |-> Append(frs, Frame(idl, "return", FALSE)),
     loaded |-> Append(seen, fname)]

InitWalk ==
    /\ root_module = Context_new
    /\ cur_scope = << >>
    /\ TableIdle
    /\ LowerIdle
    /\ templates = AllTemplates
    /\ \E defs \in SeqsUpTo(RootItems, MaxWalkDefs) :
          files = Loader(TextFile(Ok(specification(defs))))
    /\ pc = "walking"
    /\ root_pairs = IdlParser_parse(load(files, idl_file).val).val
    /\ root_module_text = << >>
    /\ sink = << >>
    /\ returned = None
    /\ hash_seed = 0
    /\ prev_text = None
    /\ runs = 1
    /\ frames = << Frame(root_pairs, "discard", FALSE) >>
    /\ loaded = << >>

\* the pair the innermost loop takes next
next_pair == Head(frames[Len(frames)].rest)

taking == frames # << >> /\ frames[Len(frames)].rest # << >>

walkFrame ==
    <<tableVars, lowerVars, runVars, files, templates, pc, root_pairs,
      root_module_text, sink, returned>>

\* Rule::module_dcl: push the id, lookup_module, loop over the body
EnterModule ==
    /\ taking
    /\ next_pair.rule = "module_dcl"
    /\ cur_scope' = Append(cur_scope, next_pair.inner[1].str)
    /\ root_module' = lookup_module(root_module, cur_scope')
    /\ frames' = Append(advance(frames),
                        Frame(Tail(next_pair.inner), "discard", TRUE))
    /\ UNCHANGED <<walkFrame, loaded>>

\* Rule::include_directive: load, parse, loop over the pairs of the file
EnterInclude ==
    /\ taking
    /\ next_pair.rule = "include_directive"
    /\ IF next_pair.inner = << >>
       THEN frames' = advance(frames) /\ UNCHANGED loaded
       ELSE IF ~load(files, next_pair.inner[1].str).ok
       THEN /\ frames' = returned_to(advance(frames),
                                     Err(FileNotFound(next_pair.inner[1].str)))
            /\ UNCHANGED loaded
       ELSE IF ~IdlParser_parse(load(files, next_pair.inner[1].str).val).ok
       THEN /\ frames' = returned_to(advance(frames),
                                     Err(ParserError("pest::error::Error")))
            /\ UNCHANGED loaded
       ELSE LET call == include_call(advance(frames), loaded,
                            next_pair.inner[1].str,
                            IdlParser_parse(load(files, next_pair.inner[1].str).val).val)
            IN  frames' = call.frames /\ loaded' = call.loaded
    /\ UNCHANGED <<ctxVars, walkFrame>>

\* a declaration: lowered and added, or its error returned
WalkDcl ==
    /\ taking
    /\ next_pair.rule \in DclRules
    /\ LET w == process(root_module, cur_scope, files, next_pair)
       IN  /\ root_module' = w.root
           /\ frames' = returned_to(advance(frames), w.res)
    /\ UNCHANGED <<cur_scope, walkFrame, loaded>>

\* anything else: loop over the children
EnterOther ==
    /\ taking
    /\ next_pair.rule \notin DclRules \cup {"module_dcl", "include_directive"}
    /\ frames' = Append(advance(frames), Frame(next_pair.inner, "discard", FALSE))
    /\ UNCHANGED <<ctxVars, walkFrame, loaded>>

\* the loop is done: the call returns Ok(()), after scope.pop() for a module
Return ==
    /\ frames # << >>
    /\ frames[Len(frames)].rest = << >>
    /\ cur_scope' = IF frames[Len(frames)].pops
                    THEN SubSeq(cur_scope, 1, Len(cur_scope) - 1)
                    ELSE cur_scope
    /\ frames' = SubSeq(frames, 1, Len(frames) - 1)
    /\ UNCHANGED <<root_module, walkFrame, loaded>>

NextWalk == EnterModule \/ EnterInclude \/ WalkDcl \/ EnterOther \/ Return

SpecWalk == InitWalk /\ [][NextWalk]_vars

\* the walk is sequential code: a step that can be taken is taken
FairSpecWalk == SpecWalk /\ WF_vars(NextWalk)

\* the walk, call by call, ends with the table and the scope that process
\* gives for the pairs of the root file
WalkAgrees ==
    frames = << >> =>
        /\ root_module = process_each(Context_new, << >>, files, root_pairs, FALSE).root
        /\ cur_scope = << >>

-----------------------------------------------------------------------------
(* Termination of the walk                                                 *)

Max(a, b) == IF a >= b THEN a ELSE b

\* the length of the longest chain of #include directives of readable files
\* that starts in `pairs`
RECURSIVE longest_chain(_, _)
longest_chain(loader, pairs) ==
    IF pairs = << >>
    THEN 0
    ELSE Max(IF Head(pairs).rule = "include_directive"
             THEN IF readable(loader, Head(pairs).inner[1].str)
                  THEN 1 + longest_chain(loader,
                               pairs_of(loader, Head(pairs).inner[1].str))
                  ELSE 0
             ELSE longest_chain(loader, Head(pairs).inner),
             longest_chain(loader, Tail(pairs)))

\* the number of include arms under way
include_depth == Cardinality({ i \in 1..Len(frames) : frames[i].on_err = "return" })

\* the files of the #include directives the text comes to, each time it
\* comes to one, in order
included_files ==
    [i \in 1..Len(include_events(files, root_pairs, << >>)) |->
        include_events(files, root_pairs, << >>)[i][2]]

\* C27: with the files of the pool, whose include graph has no cycle, the
\* walk ends; it ends having loaded and walked a file once for every
\* #include directive it came to, a file included twice being walked twice;
\* and at no time are more include arms under way than the longest chain of
\* #include directives is long.
C27_WalkTerminates ==
    /\ <>(frames = << >>)
    /\ [](include_depth <= longest_chain(files, root_pairs))
    /\ [](frames = << >> => loaded = included_files)

\* C27 witness: the walk of `#include "inner.idl"  #include "other.idl"` has
\* ended, with inner.idl walked twice, once from other.idl
C27_Witness ==
    /\ frames = << >>
    /\ root_pairs = specification(<< include_directive("inner.idl"),
                                     include_directive("other.idl") >>)
    /\ loaded = << "inner.idl", "other.idl", "inner.idl" >>

-----------------------------------------------------------------------------
(* Aggregate declarations                                                  *)

AggregateRules == {"struct_def", "union_def", "enum_dcl", "const_dcl"}

\* a part of the declaration does not lower
part_fails(pair) ==
    IF pair.rule = "struct_def"
    THEN \E i \in 1..Len(Tail(pair.inner)) : ~line_lowers(Tail(pair.inner)[i])
    ELSE pair \in FailingDcls

AggregateStep ==
    (given.rule \in AggregateRules /\ lowered = None /\ lowered' # None) =>
        IF part_fails(given)
        THEN /\ ~lowered'.val.ok
             /\ root_module' = root_module
             /\ cur_scope' = cur_scope
        ELSE /\ lowered'.val = Ok(Unit)
             /\ Len(MapAt(root_module', cur_scope,
                          IF given.rule = "const_dcl" THEN "constants" ELSE "types"))
                   = 1 + Len(MapAt(root_module, cur_scope,
                          IF given.rule = "const_dcl" THEN "constants" ELSE "types"))

\* C28: when a member of a struct, a label or an element of a case of a
\* union, or the type or the value of a constant does not lower, process
\* returns an error and leaves the module table exactly as it was; when
\* every part lowers, process returns Ok and the declaration is added.
C28_AllOrNothing == [][AggregateStep]_vars

\* C28 witness: struct s { long a; string<1.5d> b; } was walked at the root
\* of a table holding typedefs: process returned an error and the table is
\* the one it was
C28_Witness ==
    /\ given = struct_def("s",
                  << member(long_type, << simple_declarator("a") >>),
                     member(string_type("string_type", << unreadable_expr >>),
                            << simple_declarator("b") >>) >>)
    /\ cur_scope = << >>
    /\ is_some(lowered)
    /\ ~lowered.val.ok
    /\ root_module = EarlierTable

-----------------------------------------------------------------------------
(* The output sink                                                         *)

ErrorsBeforeWrite == {"FileNotFound", "ParserError", "RenderError"}

NothingWrittenBeforeRender ==
    /\ pc \in {"start", "loaded", "walking", "rendered", "panicked"} => sink = << >>
    /\ (pc = "returned" /\ ~returned.ok /\ returned.err.error \in ErrorsBeforeWrite)
          => sink = << >>
    /\ (pc = "returned" /\ returned.ok) =>
          /\ sink = root_module_text
          /\ Ok(sink) = IdlModule_render(root_module, templates, 0)

OneWrite ==
    sink' # sink =>
        /\ pc = "rendered"
        /\ sink = << >>
        /\ sink' = root_module_text
        /\ returned' = Ok(Unit)

\* C29: nothing is in the sink before the root module has rendered; when
\* generate_with_loader returns FileNotFound, ParserError or RenderError the
\* sink is empty; when it returns Ok the sink holds the whole rendered text
\* of the table, put there by one write after the render.
C29_WriteAfterRender == [](NothingWrittenBeforeRender) /\ [][OneWrite]_vars

\* C29 witness: a declaration was walked, a template was missing, the driver
\* returned RenderError and the sink is empty
C29_Witness ==
    /\ pc = "returned"
    /\ ~returned.ok
    /\ returned.err.error = "RenderError"
    /\ root_module.types # << >>
    /\ sink = << >>

-----------------------------------------------------------------------------
(* Re-opened modules                                                       *)

\* the modules stored directly in the module at `scope`
ModulesAt(root, scope) ==
    IF has_module(root, scope) THEN module_at(root, scope).modules ELSE << >>

\* the entries the bodies written for the module at `scope` give one of its
\* maps: the recorded declarations of all of them, in the order of the walk
merged_entries(scope, map) ==
    LET picked == firsts(SelectSeq(recorded,
                      LAMBDA d : d.scope = scope /\ d.map = map))
    IN  [i \in 1..Len(picked) |->
            [key |-> picked[i].id, value |-> picked[i].dcl.val]]

\* the module.j2 blocks rendered for the module at path s
blocks_of(text, s) ==
    chunks_named(chunks_at(text, SubSeq(s, 1, Len(s) - 1)), {"module.j2"}, s[Len(s)])

\* the scopes the text opens more than once
Reopened ==
    LET opened == source_modules(files, RootPairs, << >>)
    IN  {opened[i] : i \in {j \in 1..Len(opened) :
                               \E k \in 1..(j - 1) : opened[k] = opened[j]}}

\* C30: once the text is walked, every module holds each module opened in
\* it once, at the place of its first opening, however many times it is
\* opened in the text or in the files the text includes; the maps of a
\* module hold the declarations of all the bodies written for it, in the
\* order of the walk, the first of an identifier per map; and the rendered
\* text has one block for each module.
C30_ModulesMerge ==
    /\ walked =>
          \A scope \in {<< >>} \cup Range(source_modules(files, RootPairs, << >>)) :
              /\ has_module(root_module, scope)
              /\ keys(ModulesAt(root_module, scope)) = opened_in(scope)
              /\ \A map \in {"types", "constants"} :
                    MapAt(root_module, scope, map) = merged_entries(scope, map)
    /\ pc = "rendered" =>
          \A s \in Range(source_modules(files, RootPairs, << >>)) :
              Len(blocks_of(root_module_text, s)) = 1

\* C30 witness: module A { struct x { long a; }; }, then #include
\* "reopen.idl" (module C, then module A again with another struct x and a
\* typedef z), then module A with a constant: A is before C, holds the first
\* x, z and the constant, and has one block in the text
C30_Witness ==
    /\ pc = "rendered"
    /\ RootPairs[1].inner
          = << definition(module_dcl("A", << definition(StructX) >>)),
               include_directive("reopen.idl"),
               definition(module_dcl("A", << definition(ConstX) >>)) >>
    /\ <<"A">> \in Reopened
    /\ keys(root_module.modules) = << "A", "C" >>
    /\ keys(MapAt(root_module, << "A" >>, "types")) = << "x", "z" >>
    /\ get(MapAt(root_module, << "A" >>, "types"), "x").members[1].id = "a"
    /\ keys(MapAt(root_module, << "A" >>, "constants")) = << "x" >>
    /\ Len(blocks_of(root_module_text, << "A" >>)) = 1

=============================================================================
